---------------------------- MODULE Spec2Model ----------------------------
(***************************************************************************)
(* A model of the deduplication and incremental-selection logic of the     *)
(* ai-news-monitor scripts.                                                *)
(*                                                                         *)
(*   SpecSame    is_same_news as a pure function (src/forbes_github.py)     *)
(*   SpecForbes  the ingestion run parse_forbes_ai with its Last-Known       *)
(*               Marker, in both revisions (src/forbes_github.py and        *)
(*               src/src/forbes_github.py)                                  *)
(*   SpecStore   the news table under add_article calls of concurrent       *)
(*               parser processes and mark_article_posted calls             *)
(*               (src/news_parser_db.py, src/news_handler_db.py)            *)
(*   SpecPublish publish runs, one after the other, of the database         *)
(*               variant (src/news_handler_db.py) or of the file variant    *)
(*               (src/src/main.py), with ingestion going on                 *)
(*   SpecPrune   mark_news_sent_and_cleanup of the file variant called      *)
(*               for any record of a result file, once and again            *)
(*   SpecFirstRun  first runs of the scripts: no marker file, no Sent-Set   *)
(*               file, no result files, no database                         *)
(*   SpecFingerprint  the two fingerprint functions as pure functions      *)
(*               (src/news_parser_db.py, src/forbes_github.py)              *)
(*   SpecScan    one parser run over a new news.db: the index scan of      *)
(*               each site, its counters (src/news_parser_db.py)            *)
(*   SpecRace    two publish processes of the database variant side by     *)
(*               side (src/news_handler_db.py)                              *)
(*   SpecDrain   publish runs of the database variant that are run         *)
(*               again and again (src/news_handler_db.py)                   *)
(*   SpecRetain  save_results writing more result files than it keeps      *)
(*               (src/forbes_github.py)                                     *)
(*                                                                         *)
(* Text is modelled as sequences of one-character strings, so that         *)
(* lower(), strip(), split() and concatenation do what the Python does.    *)
(***************************************************************************)
EXTENDS Integers, Sequences, FiniteSets, TLC

(***************************************************************************)
(* Bounds of the model.                                                    *)
(***************************************************************************)
\* most words of a title fed to is_same_news
MaxWords == 4
\* most entries of a scraped page
MaxPage == 5
\* last tick of the clock that stamps parsed_date
MaxTime == 1
\* most result files ever written, and most record blocks the result files
\* hold at a time
MaxFiles == 2
MaxRecords == 3
\* most result files a parser that outruns the retention of save_results
\* writes
MaxSaves == 6

(***************************************************************************)
(* Text helpers (Python str methods).                                      *)
(***************************************************************************)
Max(a, b) == IF a >= b THEN a ELSE b

\* str.lower() on one character
LowerChar(c) ==
    CASE c = "A" -> "a"
      [] c = "B" -> "b"
      [] c = "C" -> "c"
      [] c = "D" -> "d"
      [] c = "E" -> "e"
      [] OTHER -> c

\* str.lower()
lower(s) == [i \in 1..Len(s) |-> LowerChar(s[i])]

IsSpace(c) == c = " "

\* str.lstrip() / str.rstrip() / str.strip()
RECURSIVE lstrip(_)
lstrip(s) == IF s # <<>> /\ IsSpace(Head(s)) THEN lstrip(Tail(s)) ELSE s

RECURSIVE rstrip(_)
rstrip(s) ==
    IF s # <<>> /\ IsSpace(s[Len(s)]) THEN rstrip(SubSeq(s, 1, Len(s) - 1)) ELSE s

strip(s) == rstrip(lstrip(s))

\* length of the leading run of non-space characters of s
RECURSIVE WordLen(_)
WordLen(s) == IF s = <<>> \/ IsSpace(Head(s)) THEN 0 ELSE 1 + WordLen(Tail(s))

\* str.split(): the words of s, split at runs of whitespace
RECURSIVE split(_)
split(s) ==
    IF s = <<>> THEN <<>>
    ELSE IF IsSpace(Head(s)) THEN split(Tail(s))
    ELSE LET n == WordLen(s)
         IN  <<SubSeq(s, 1, n)>> \o split(SubSeq(s, n + 1, Len(s)))

\* set(list)
ToSet(q) == {q[i] : i \in 1..Len(q)}

(***************************************************************************)
(* News items: Python dicts with 'title', 'link' and, possibly,            *)
(* 'fingerprint'.  None stands for a missing item (None or an empty dict), *)
(* NoFp for a missing or empty 'fingerprint'.                              *)
(***************************************************************************)
None == [none |-> TRUE]
NoFp == <<>>

\* hashlib.md5(f"{title}|{url}").hexdigest(): the digest is taken as
\* injective on its input string, so it is modelled by that string.
generate_fingerprint(title, url) == title \o <<"|">> \o url

\* mutants of SimilarWords: the smaller set as the divisor; a threshold of 0.8
SimilarWordsMin(words1, words2) ==
    LET n1 == Cardinality(words1)
        n2 == Cardinality(words2)
    IN  10 * Cardinality(words1 \cap words2) > 7 * (IF n1 <= n2 THEN n1 ELSE n2)

SimilarWordsStrict(words1, words2) ==
    10 * Cardinality(words1 \cap words2)
        > 8 * Max(Cardinality(words1), Cardinality(words2))

\* len(words1.intersection(words2)) / max(len(words1), len(words2)) > 0.7
SimilarWords(words1, words2) ==
    10 * Cardinality(words1 \cap words2)
        > 7 * Max(Cardinality(words1), Cardinality(words2))

is_same_news(news1, news2) ==
    IF news1 = None \/ news2 = None THEN FALSE
    ELSE IF /\ news1.fingerprint # NoFp
            /\ news2.fingerprint # NoFp
            /\ news1.fingerprint = news2.fingerprint THEN TRUE
    ELSE IF news1.link = news2.link THEN TRUE
    ELSE LET title1 == strip(lower(news1.title))
             title2 == strip(lower(news2.title))
             words1 == ToSet(split(title1))
             words2 == ToSet(split(title2))
         IN  IF title1 = title2 THEN TRUE
             ELSE IF words1 # {} /\ words2 # {}
                  THEN SimilarWords(words1, words2)
                  ELSE FALSE

(***************************************************************************)
(* Inputs of is_same_news.                                                 *)
(***************************************************************************)
Vocabulary == <<"a", "b", "c", "d", "e">>

\* the lists of at most n indices of Vocabulary, in non-decreasing order
RECURSIVE IndexLists(_)
IndexLists(n) ==
    IF n = 0 THEN {<<>>}
    ELSE LET shorter == IndexLists(n - 1)
         IN  shorter \cup
             {Append(q, i) : q \in {x \in shorter : Len(x) = n - 1},
                             i \in 1..Len(Vocabulary)}

NonDecreasing(q) == \A i \in 1..(Len(q) - 1) : q[i] <= q[i + 1]

\* the word lists of at most n words, in alphabetical order (a word may repeat)
WordLists(n) ==
    {[i \in 1..Len(q) |-> Vocabulary[q[i]]] : q \in {x \in IndexLists(n) : NonDecreasing(x)}}

\* the words joined by sep
RECURSIVE Join(_, _)
Join(ws, sep) ==
    IF ws = <<>> THEN <<>>
    ELSE IF Len(ws) = 1 THEN <<ws[1]>>
    ELSE <<ws[1]>> \o sep \o Join(Tail(ws), sep)

UpperChar(c) ==
    CASE c = "a" -> "A"
      [] c = "b" -> "B"
      [] c = "c" -> "C"
      [] c = "d" -> "D"
      [] c = "e" -> "E"
      [] OTHER -> c

\* the title made of the words ws, written in one of five ways
Plain(ws) == Join(ws, <<" ">>)
Capitalised(ws) == IF ws = <<>> THEN <<>> ELSE <<UpperChar(ws[1])>> \o Tail(Plain(ws))
Punctuated(ws) == Plain(ws) \o <<".">>
Wide(ws) == Join(ws, <<" ", " ">>)
Padded(ws) == <<" ">> \o Plain(ws) \o <<" ">>

Renderings == {"plain", "capitalised", "punctuated", "wide", "padded"}

Render(how, ws) ==
    CASE how = "plain" -> Plain(ws)
      [] how = "capitalised" -> Capitalised(ws)
      [] how = "punctuated" -> Punctuated(ws)
      [] how = "wide" -> Wide(ws)
      [] how = "padded" -> Padded(ws)

TitleWordLists == WordLists(MaxWords)
FewTitles == {Plain(<<"a", "b">>), Plain(<<"c", "d">>)}

Item(title, link, fp) == [title |-> title, link |-> link, fingerprint |-> fp]

\* pairs over a few titles with every combination of link and fingerprint,
\* and the pairs with a missing item
IdentityPairs ==
    LET items == {Item(t, l, f) : t \in FewTitles, l \in {<<"x">>, <<"y">>},
                                  f \in {NoFp, <<"f">>, <<"g">>}}
    IN  (items \X items) \cup ({None} \X (items \cup {None})) \cup (items \X {None})

(***************************************************************************)
(* The ingestion run of the Forbes parser.                                  *)
(*                                                                         *)
(* A page is the sequence of entries the scrape finds, newest first; an    *)
(* entry holds the text of its time element, of its title link and the     *)
(* link's href.  The marker file last_news.json is NoFile, Corrupt or the  *)
(* saved item (its 'last_updated' stamp is left out: nothing reads it).    *)
(***************************************************************************)
NoFile == [nofile |-> TRUE]
Corrupt == [corrupt |-> TRUE]

\* "title and href and len(title) > 10"
MinTitleLen == 10
ValidEntry(e) == e.title # <<>> /\ e.link # <<>> /\ Len(e.title) > MinTitleLen

\* current_article = {'date', 'title', 'link', 'fingerprint'}
Article(e) ==
    [date |-> e.date, title |-> e.title, link |-> e.link,
     fingerprint |-> generate_fingerprint(e.title, e.link)]

\* load_last_news: the saved item, or None when the file is missing or unreadable
load_last_news(file) == IF file = NoFile \/ file = Corrupt THEN None ELSE file

\* what save_last_news writes for news_item
save_last_news(news_item) ==
    [date |-> news_item.date, title |-> news_item.title, link |-> news_item.link,
     fingerprint |-> generate_fingerprint(news_item.title, news_item.link)]

\* the scrape loop of the class revision: every valid entry, in page order
RECURSIVE ScrapeAll(_)
ScrapeAll(page) ==
    IF page = <<>> THEN <<>>
    ELSE IF ValidEntry(Head(page)) THEN <<Article(Head(page))>> \o ScrapeAll(Tail(page))
    ELSE ScrapeAll(Tail(page))

\* "for i, article in enumerate(all_articles): if is_same_news(...): break":
\* the index (from 1) of the first article that is the last known one, 0 if none
RECURSIVE FindLastNews(_, _, _)
FindLastNews(all, last_news, i) ==
    IF i > Len(all) THEN 0
    ELSE IF is_same_news(all[i], last_news) THEN i
    ELSE FindLastNews(all, last_news, i + 1)

\* mutants of NewArticles: the marker's own article is kept; nothing is
\* returned when the marker is not on the page
NewArticlesInclusive(all, last_news) ==
    IF last_news # None
    THEN LET k == FindLastNews(all, last_news, 1)
         IN  IF k > 0 THEN SubSeq(all, 1, k) ELSE all
    ELSE all

NewArticlesNoFallback(all, last_news) ==
    IF last_news # None
    THEN LET k == FindLastNews(all, last_news, 1)
         IN  IF k > 0 THEN SubSeq(all, 1, k - 1) ELSE <<>>
    ELSE all

\* the articles parse_forbes_ai returns (class revision)
NewArticles(all, last_news) ==
    IF last_news # None
    THEN LET k == FindLastNews(all, last_news, 1)
         IN  IF k > 0 THEN SubSeq(all, 1, k - 1) ELSE all
    ELSE all

\* mutant of MarkerAfter: the marker is written only over a marker that was read
MarkerAfterIfRead(file, all, last_news) ==
    IF all # <<>> /\ last_news # None THEN save_last_news(all[1]) ELSE file

\* "if all_articles: self.save_last_news(all_articles[0])"
MarkerAfter(file, all, last_news) ==
    IF all # <<>> THEN save_last_news(all[1]) ELSE file

(***************************************************************************)
(* The function revision (src/src/forbes_github.py) scans the containers   *)
(* and stops at the first one that is the last known article; when fewer   *)
(* than five articles were collected it scans the h3 links as well.  The   *)
(* h3 links are taken to be those of the same entries, in page order.      *)
(***************************************************************************)
MethodTwoBelow == 5

HasLink(articles, href) == \E i \in 1..Len(articles) : articles[i].link = href

\* One scan: acc is [articles, found].  needDate is TRUE for the containers
\* (an entry without date text is skipped), FALSE for the h3 links.
RECURSIVE ScanEntries(_, _, _, _)
ScanEntries(entries, last_news, needDate, acc) ==
    IF entries = <<>> \/ acc.found THEN acc
    ELSE LET e == Head(entries)
             rest == Tail(entries)
         IN  IF needDate /\ e.date = <<>>
             THEN ScanEntries(rest, last_news, needDate, acc)
             ELSE IF ~ValidEntry(e)
             THEN ScanEntries(rest, last_news, needDate, acc)
             ELSE IF HasLink(acc.articles, e.link)
             THEN ScanEntries(rest, last_news, needDate, acc)
             ELSE IF last_news # None /\ is_same_news(Article(e), last_news)
             THEN [acc EXCEPT !.found = TRUE]
             ELSE ScanEntries(rest, last_news, needDate,
                              [acc EXCEPT !.articles = Append(@, Article(e))])

\* the articles parse_forbes_ai returns (function revision)
NewArticlesFn(page, last_news) ==
    LET one == ScanEntries(page, last_news, TRUE, [articles |-> <<>>, found |-> FALSE])
        two == IF Len(one.articles) < MethodTwoBelow
               THEN ScanEntries(page, last_news, FALSE, one)
               ELSE one
    IN  two.articles

\* "if articles: save_last_news(articles[0])"
MarkerAfterFn(file, articles) ==
    IF articles # <<>> THEN save_last_news(articles[1]) ELSE file

\* three-letter words, and the titles made of them
Word(c) == <<c, c, c>>
RECURSIVE Phrase(_)
Phrase(cs) ==
    IF cs = <<>> THEN <<>>
    ELSE IF Len(cs) = 1 THEN Word(cs[1])
    ELSE Word(cs[1]) \o <<" ">> \o Phrase(Tail(cs))

Entry(date, title, link) == [date |-> date, title |-> title, link |-> link]
SomeDate == <<"1", "d">>

\* The entries a page is made of: an article; another article under another
\* link whose title shares three of its four words; three unrelated articles;
\* one without date text; one whose title is too short.
EntryOne == Entry(SomeDate, Phrase(<<"a", "b", "c", "d">>), <<"u", "1">>)
EntryAlike == Entry(SomeDate, Phrase(<<"a", "b", "c", "e">>), <<"u", "2">>)
EntryTwo == Entry(SomeDate, Phrase(<<"b", "e", "e">>), <<"u", "3">>)
EntryThree == Entry(SomeDate, Phrase(<<"c", "c", "e">>), <<"u", "4">>)
EntryFour == Entry(SomeDate, Phrase(<<"d", "d", "d", "e">>), <<"u", "5">>)
EntryUndated == Entry(<<>>, Phrase(<<"d", "c", "c">>), <<"u", "6">>)
EntryShort == Entry(SomeDate, Phrase(<<"a", "b">>), <<"u", "7">>)

PageEntries ==
    {EntryOne, EntryAlike, EntryTwo, EntryThree, EntryFour, EntryUndated, EntryShort}

\* an article that has scrolled off every page
EntryGone == Entry(SomeDate, Phrase(<<"b", "b", "a">>), <<"u", "0">>)

OnPage(page, e) == \E i \in 1..Len(page) : page[i] = e

(***************************************************************************)
(* The Article Store: table news of news.db.                               *)
(*                                                                         *)
(* The table is the sequence of its rows in insertion order; rows are      *)
(* never deleted, so the AUTOINCREMENT id of a row is its position.        *)
(* sha1 is taken to be injective: a fingerprint is the text it digests.    *)
(* pub_date 0 stands for NULL, which sorts first.                          *)
(***************************************************************************)
\* NewsDB.fingerprint: sha1 of title + "|" + link
fingerprint(title, link) == title \o <<"|">> \o link

HasFingerprint(table, fp) == \E i \in 1..Len(table) : table[i].fingerprint = fp

\* the row an INSERT of add_article would store
NewRow(table, site, title, link, pub_date, parsed_date) ==
    [id |-> Len(table) + 1, site |-> site, title |-> title, link |-> link,
     pub_date |-> pub_date, parsed_date |-> parsed_date,
     fingerprint |-> fingerprint(title, link), status |-> "new"]

\* mutant of InsertAccepted: no UNIQUE constraint on fingerprint
InsertAcceptedAlways(table, row) == TRUE

\* "fingerprint TEXT UNIQUE": the INSERT raises IntegrityError when a row
\* with the fingerprint is stored
InsertAccepted(table, row) == ~HasFingerprint(table, row.fingerprint)

\* mutants of TableAfterInsert: a rejected INSERT overwrites the stored
\* row's site and dates; a rejected INSERT puts the stored row back to 'new'
TableAfterInsertOverwrite(table, row) ==
    IF InsertAccepted(table, row) THEN Append(table, row)
    ELSE [i \in 1..Len(table) |->
             IF table[i].fingerprint = row.fingerprint
             THEN [table[i] EXCEPT !.site = row.site, !.pub_date = row.pub_date,
                                   !.parsed_date = row.parsed_date]
             ELSE table[i]]

TableAfterInsertReset(table, row) ==
    IF InsertAccepted(table, row) THEN Append(table, row)
    ELSE [i \in 1..Len(table) |->
             IF table[i].fingerprint = row.fingerprint
             THEN [table[i] EXCEPT !.status = "new"]
             ELSE table[i]]

\* mutant of TableAfterInsert: INSERT OR REPLACE, the stored row of the
\* fingerprint goes and the new row is appended
TableAfterInsertReplace(table, row) ==
    Append(SelectSeq(table, LAMBDA r : r.fingerprint # row.fingerprint), row)

\* the table after "INSERT INTO news ..." and commit
TableAfterInsert(table, row) ==
    IF InsertAccepted(table, row) THEN Append(table, row) ELSE table

\* what add_article logs: inserted (returns True), duplicate skipped or
\* unexpected error (both return False)
InsertOutcome(table, row, fault) ==
    IF fault THEN "error"
    ELSE IF InsertAccepted(table, row) THEN "inserted"
    ELSE "duplicate"

AddResult(outcome) == outcome = "inserted"

\* parse_site_static / parse_site_selenium after add_article: the counter
\* that goes up beside found_total
Counted(added) == IF added THEN "added_total" ELSE "duplicates"

\* what the call site appends to self.errors, whose length the run reports
\* as "errors": nothing, whatever add_article returned
ErrorsAppended(added) == 0

\* _init_schema: "CREATE TABLE IF NOT EXISTS news", "CREATE INDEX IF NOT
\* EXISTS": a table that exists is left as it is
init_schema(table) == table

\* mutant of TableAfterUpdate: the UPDATE changes no row
TableAfterUpdateNone(table, id) == table

\* "UPDATE news SET status='posted' WHERE id = ?"
TableAfterUpdate(table, id) ==
    [i \in 1..Len(table) |->
        IF table[i].id = id THEN [table[i] EXCEPT !.status = "posted"] ELSE table[i]]

\* The articles the parsers find.  Two of them differ in title and link
\* and have the same fingerprint text.
StoreTitles == {<<"a">>, <<"a", "|", "b">>}
StoreLinks == {<<"c">>, <<"b", "|", "c">>}
StoreArticles ==
    {a \in [title : StoreTitles, link : StoreLinks] :
        ~(a.title = <<"a", "|", "b">> /\ a.link = <<"b", "|", "c">>)}
Sites == {"site"}
PubDates == {0, 1}
Parsers == {"p1", "p2"}

NoCall == [outcome |-> "none"]

(***************************************************************************)
(* Publishing, database variant.                                           *)
(***************************************************************************)
\* ORDER BY pub_date ASC, parsed_date ASC
Before(r1, r2) ==
    \/ r1.pub_date < r2.pub_date
    \/ r1.pub_date = r2.pub_date /\ r1.parsed_date < r2.parsed_date

\* mutant of get_next_article: the status is not looked at
get_next_article_any(table) ==
    {table[i] : i \in {i \in 1..Len(table) :
        \A j \in 1..Len(table) : ~Before(table[j], table[i])}}

\* mutant of get_next_article: ORDER BY ... DESC, the latest row first
get_next_article_latest(table) ==
    {table[i] : i \in {i \in 1..Len(table) :
        /\ table[i].status = "new"
        /\ \A j \in 1..Len(table) :
              table[j].status = "new" => ~Before(table[i], table[j])}}

\* get_next_article: the rows the SELECT ... LIMIT 1 may return; none when
\* the set is empty, and any of them when several rows tie
get_next_article(table) ==
    {table[i] : i \in {i \in 1..Len(table) :
        /\ table[i].status = "new"
        /\ \A j \in 1..Len(table) :
              table[j].status = "new" => ~Before(table[j], table[i])}}

\* cur.fetchone() after the SELECT ... LIMIT 1: the one row the engine
\* returns.  Which of the rows that tie it is, SQL leaves open; the engine
\* decides it the same way each time (here: by the order of insertion,
\* forwards or backwards).
fetchone(rows, order) ==
    CHOOSE r \in rows :
        \A q \in rows : IF order = "first" THEN r.id <= q.id ELSE r.id >= q.id

PostedIds(table) == {table[i].id : i \in {i \in 1..Len(table) : table[i].status = "posted"}}

\* mutant of TelegramSends: the text is sent whether or not the photo went out
TelegramSendsBoth(image, photo_ok, text_ok) ==
    (IF image /\ photo_ok THEN 1 ELSE 0) + (IF text_ok THEN 1 ELSE 0)

\* mutant of TelegramSends: without an image nothing is sent
TelegramSendsPhotoOnly(image, photo_ok, text_ok) ==
    IF image /\ photo_ok THEN 1 ELSE 0

\* The messages that reach the channel in one run of the database variant:
\* the photo when there is an image, the text when the photo did not go out.
TelegramSends(image, photo_ok, text_ok) ==
    IF image /\ photo_ok THEN 1
    ELSE IF text_ok THEN 1
    ELSE 0

\* file variant: the photo when there is an image, else the text
TelegramSendsFile(image, send_ok) == IF send_ok THEN 1 ELSE 0

RECURSIVE Repeat(_, _)
Repeat(x, n) == IF n = 0 THEN <<>> ELSE <<x>> \o Repeat(x, n - 1)

(***************************************************************************)
(* Publishing, file variant: ExistingFilesNewsManager.                     *)
(*                                                                         *)
(* A result file is [name, header, count, records]: header tells whether   *)
(* the file still holds its head lines ('FORBES AI - GITHUB PARSER' ...    *)
(* 'New articles: count'), records are the DATE/TITLE/LINK records that    *)
(* the lines of fifty dashes separate.  The first record shares its block  *)
(* with the head lines.  The directory is the sequence of its files in     *)
(* the order of os.path.getctime, oldest first.  md5 is taken to be        *)
(* injective: the hash of a news line is the line.                         *)
(***************************************************************************)
\* "t in text"
Contains(text, t) ==
    \E i \in 0..(Len(text) - Len(t)) : SubSeq(text, i + 1, i + Len(t)) = t

\* s.split(c)[0]
RECURSIVE BeforeChar(_, _)
BeforeChar(s, c) ==
    IF s = <<>> \/ Head(s) = c THEN <<>>
    ELSE <<Head(s)>> \o BeforeChar(Tail(s), c)

clean_forbes_url(url) ==
    IF Contains(url, <<"?">>) THEN BeforeChar(url, "?") ELSE url

HeadText == <<"F", "O", "R", "B", "E", "S", " ", "A", "I">>
DateTag == <<"D", "A", "T", "E", ":">>
TitleTag == <<"T", "I", "T", "L", "E", ":">>
LinkTag == <<"L", "I", "N", "K", ":">>

DateLine(rec) == DateTag \o <<" ">> \o rec.date
TitleLine(rec) == TitleTag \o <<" ">> \o rec.title
LinkLine(rec) == LinkTag \o <<" ">> \o rec.link

\* the text of the i-th block of content.split('-' * 50)
BlockText(file, i) ==
    (IF i = 1 /\ file.header THEN HeadText ELSE <<>>)
        \o DateLine(file.records[i]) \o TitleLine(file.records[i])
        \o LinkLine(file.records[i])

\* f"{title} | {link}"
NewsLine(title, link) == title \o <<" ", "|", " ">> \o link

\* hashlib.md5(news_line).hexdigest()
news_hash(news_line) == news_line

\* parse_forbes_format: one news line per block that has a title and a link
RECURSIVE parse_forbes_format(_)
parse_forbes_format(records) ==
    IF records = <<>> THEN <<>>
    ELSE LET title == strip(Head(records).title)
             link == clean_forbes_url(strip(Head(records).link))
         IN  (IF title # <<>> /\ link # <<>> THEN <<NewsLine(title, link)>> ELSE <<>>)
                 \o parse_forbes_format(Tail(records))

\* the lines of a file that hold a '|', stripped
RECURSIVE BarLines(_)
BarLines(records) ==
    IF records = <<>> THEN <<>>
    ELSE SelectSeq(<<strip(DateLine(Head(records))), strip(TitleLine(Head(records))),
                     strip(LinkLine(Head(records)))>>,
                   LAMBDA line : Contains(line, <<"|">>))
             \o BarLines(Tail(records))

\* parse_news_file: Forbes format when the head line is there, else the
\* simple format of one news line per line
parse_news_file(file) ==
    IF file.header THEN parse_forbes_format(file.records) ELSE BarLines(file.records)

\* mutant of load_sent_news: a run starts from an empty set
LoadNothing(file) == {}

\* load_sent_news: the stored set, empty when the file is missing or unreadable
load_sent_news(file) == IF file = NoFile \/ file = Corrupt THEN {} ELSE file.hashes

\* what save_sent_news writes
save_sent_news(sent_news) == [hashes |-> sent_news]

\* mutant of BottomUnsent: the Sent-Set is not looked at
BottomUnsentAny(news_lines, sent_news) ==
    IF news_lines = <<>> THEN <<>> ELSE <<news_lines[Len(news_lines)]>>

\* the first line, from the bottom, whose hash is not in the Sent-Set
RECURSIVE BottomUnsent(_, _)
BottomUnsent(news_lines, sent_news) ==
    IF news_lines = <<>> THEN <<>>
    ELSE LET last == news_lines[Len(news_lines)]
         IN  IF news_hash(last) \notin sent_news THEN <<last>>
             ELSE BottomUnsent(SubSeq(news_lines, 1, Len(news_lines) - 1), sent_news)

\* get_oldest_unsent_news: (news_line, news_hash, filepath) or None
RECURSIVE get_oldest_unsent_news(_, _)
get_oldest_unsent_news(dir, sent_news) ==
    IF dir = <<>> THEN None
    ELSE LET found == BottomUnsent(parse_news_file(Head(dir)), sent_news)
         IN  IF found # <<>>
             THEN [news_line |-> found[1], news_hash |-> news_hash(found[1]),
                   filepath |-> Head(dir).name]
             ELSE get_oldest_unsent_news(Tail(dir), sent_news)

\* the records at the positions of kept, in order
RECURSIVE KeepAt(_, _, _)
KeepAt(records, kept, i) ==
    IF i > Len(records) THEN <<>>
    ELSE (IF i \in kept THEN <<records[i]>> ELSE <<>>) \o KeepAt(records, kept, i + 1)

\* mutant of remove_forbes_news_block: update_articles_count is left out
RemoveBlocksKeepCount(file, news_line) ==
    IF ~Contains(news_line, <<"|">>) THEN file
    ELSE LET title_to_remove == strip(BeforeChar(news_line, "|"))
             kept == {i \in 1..Len(file.records) :
                         ~Contains(BlockText(file, i), title_to_remove)}
         IN  [file EXCEPT
                 !.header = file.header /\ 1 \in kept,
                 !.records = KeepAt(file.records, kept, 1)]

\* mutant of remove_forbes_news_block: update_articles_count takes one off
\* the count even when no block was removed
RemoveBlocksCountOne(file, news_line) ==
    IF ~Contains(news_line, <<"|">>) THEN file
    ELSE LET title_to_remove == strip(BeforeChar(news_line, "|"))
             kept == {i \in 1..Len(file.records) :
                         ~Contains(BlockText(file, i), title_to_remove)}
             removed_count == Len(file.records) - Cardinality(kept)
             header == file.header /\ 1 \in kept
         IN  [file EXCEPT
                 !.header = header,
                 !.count = IF header THEN Max(0, file.count - Max(1, removed_count))
                           ELSE file.count,
                 !.records = KeepAt(file.records, kept, 1)]

\* remove_forbes_news_block with update_articles_count: every block that
\* holds a record and the title text goes
remove_forbes_news_block(file, news_line) ==
    IF ~Contains(news_line, <<"|">>) THEN file
    ELSE LET title_to_remove == strip(BeforeChar(news_line, "|"))
             kept == {i \in 1..Len(file.records) :
                         ~Contains(BlockText(file, i), title_to_remove)}
             removed_count == Len(file.records) - Cardinality(kept)
             header == file.header /\ 1 \in kept
         IN  [file EXCEPT
                 !.header = header,
                 !.count = IF header THEN Max(0, file.count - removed_count)
                           ELSE file.count,
                 !.records = KeepAt(file.records, kept, 1)]

\* simple format: the lines equal to the news line go (here: are emptied)
RemoveLines(file, news_line) ==
    [file EXCEPT !.records =
        [i \in 1..Len(file.records) |->
            [date |-> IF strip(DateLine(file.records[i])) = news_line
                      THEN <<>> ELSE file.records[i].date,
             title |-> IF strip(TitleLine(file.records[i])) = news_line
                       THEN <<>> ELSE file.records[i].title,
             link |-> IF strip(LinkLine(file.records[i])) = news_line
                      THEN <<>> ELSE file.records[i].link]]]

\* the content remove_news_from_file writes back
remove_news_from_file(file, news_line) ==
    IF file.header THEN remove_forbes_news_block(file, news_line)
    ELSE RemoveLines(file, news_line)

file_has_news(file) ==
    IF file.header
    THEN \E i \in 1..Len(file.records) :
             /\ strip(file.records[i].title) # <<>>
             /\ strip(file.records[i].link) # <<>>
    ELSE BarLines(file.records) # <<>>

\* The directory after mark_news_sent_and_cleanup has dealt with filepath:
\* the file is rewritten, which makes it the youngest, and removed when no
\* news is left in it.  A missing file is an error that is logged only.
DirAfterCleanup(dir, filepath, news_line) ==
    IF \A i \in 1..Len(dir) : dir[i].name # filepath THEN dir
    ELSE LET old == CHOOSE f \in ToSet(dir) : f.name = filepath
             new == remove_news_from_file(old, news_line)
             rest == SelectSeq(dir, LAMBDA f : f.name # filepath)
         IN  IF file_has_news(new) THEN Append(rest, new) ELSE rest

\* save_results keeps the five youngest files by name
KeepFiles == 5

\* the content save_results writes for articles
ResultFile(name, articles) ==
    [name |-> name, header |-> TRUE, count |-> Len(articles),
     records |-> [i \in 1..Len(articles) |->
                     [date |-> articles[i].date, title |-> articles[i].title,
                      link |-> articles[i].link]]]

\* mutant of DirAfterSave: the five oldest files by name are kept
DirAfterSaveKeepOldest(dir, name, articles) ==
    LET all == Append(dir, ResultFile(name, articles))
        names == {all[i].name : i \in 1..Len(all)}
        old == {n \in names : Cardinality({m \in names : m < n}) >= KeepFiles}
    IN  SelectSeq(all, LAMBDA f : f.name \notin old)

\* the directory after save_results(articles)
DirAfterSave(dir, name, articles) ==
    LET all == Append(dir, ResultFile(name, articles))
        names == {all[i].name : i \in 1..Len(all)}
        old == {n \in names : Cardinality({m \in names : m > n}) >= KeepFiles}
    IN  SelectSeq(all, LAMBDA f : f.name \notin old)

\* The articles the result files are made of.  The title of the second is
\* part of the title of the first; the title of the third holds a '|' and
\* its link carries a query.
FileArticles ==
    {Entry(SomeDate, Phrase(<<"a", "b", "c", "d">>), <<"u", "1">>),
     Entry(SomeDate, Phrase(<<"a", "b", "c">>), <<"u", "2">>),
     Entry(SomeDate, Phrase(<<"e">>) \o <<" ", "|", " ">> \o Phrase(<<"e", "b">>),
           <<"u", "3", "?", "s">>)}

\* the record blocks the files of the directory hold
RECURSIVE RecordsHeld(_)
RecordsHeld(dir) ==
    IF dir = <<>> THEN 0 ELSE Len(Head(dir).records) + RecordsHeld(Tail(dir))

ArticleLists ==
    {q \in UNION {[1..n -> FileArticles] : n \in 1..MaxRecords} :
        \A i, j \in 1..Len(q) : i # j => q[i] # q[j]}

VARIABLES
    news1,        \* first argument of is_same_news
    news2,        \* second argument of is_same_news
    same_call,    \* [done, result]: whether is_same_news ran, and what it returned
    last_news_file,  \* last_news.json: NoFile, Corrupt or the saved item
    parse,        \* the ingestion run: where it is, and its locals
    db_exists,    \* news.db exists (with its table news)
    news,         \* table news: the rows in insertion order
    utcnow,       \* the clock that stamps parsed_date
    add_call,     \* per parser process: its last add_article call and outcome
    mark_call,    \* the last mark_article_posted call: id and the status it met
    tie_order,    \* which of the rows that tie under ORDER BY a LIMIT 1 returns
    variant,      \* the publishing script in use: "db", "file" or "none"
    handler,      \* the publish run: where it is, and its locals
    channel,      \* the messages the channel received: the article of each
    results_dir,  \* results/: the result files, oldest first
    file_serial,  \* the number of result files written so far
    sent_file,    \* sent_news.json: NoFile, Corrupt or the saved hashes
    fp_call,      \* the two fingerprint functions applied to two (title, link) pairs
    scan,         \* the parser run (NewsParser.run): where it is, and its locals
    procs         \* publish processes that run side by side: the locals of each

sameVars == <<news1, news2, same_call>>
forbesVars == <<last_news_file, parse>>
storeVars == <<db_exists, news, utcnow, add_call, mark_call, tie_order>>
publishVars == <<variant, handler, channel>>
fileVars == <<results_dir, file_serial, sent_file>>
parserVars == <<fp_call, scan>>
raceVars == <<procs>>
vars == <<sameVars, parserVars, raceVars, forbesVars, storeVars, publishVars, fileVars>>

\* no is_same_news call is modelled
SameAtRest ==
    /\ news1 = None
    /\ news2 = None
    /\ same_call = [done |-> TRUE, result |-> FALSE]

\* no ingestion run was started yet
ParseIdle ==
    [pc |-> "idle", revision |-> "class", last_news |-> None, page |-> <<>>,
     all_articles |-> <<>>, articles |-> <<>>, saved |-> FALSE]

ForbesAtRest ==
    /\ last_news_file = NoFile
    /\ parse = ParseIdle

\* no publish run was started yet.  seen keeps, for the claims, how much had
\* been ingested when the run selected: the number of rows (database
\* variant) or of result files written (file variant).
HandlerIdle ==
    [pc |-> "idle", item |-> None, image |-> FALSE, sent |-> 0,
     before |-> {}, seen |-> 0, ok |-> TRUE, reason |-> "none"]

\* no publishing script is in use
PublishAtRest ==
    /\ variant = "none"
    /\ handler = HandlerIdle
    /\ channel = <<>>

FilesAtRest ==
    /\ results_dir = <<>>
    /\ file_serial = 0
    /\ sent_file = NoFile

\* no news.db, no call made
StoreAtRest ==
    /\ db_exists = FALSE
    /\ news = <<>>
    /\ utcnow = 0
    /\ add_call = [p \in Parsers |-> NoCall]
    /\ mark_call = NoCall
    /\ tie_order = "first"

\* no fingerprint call is modelled
FpIdle == [done |-> TRUE, first |-> None, second |-> None, sha1 |-> <<>>, md5 |-> <<>>]

\* no parser run was started yet.  examined keeps, for the claims, what the
\* scan met at each index of the site it is at; stored the rows the run has
\* added to the table; faulted whether the storage has failed in the run.
NoCounters ==
    [found_total |-> 0, added_total |-> 0, duplicates |-> 0, per_site |-> <<>>]

ScanIdle ==
    [pc |-> "idle", todo |-> <<>>, site |-> "none", max_items |-> 0,
     miss_break |-> 0, idx |-> 0, consecutive_miss |-> 0, counters |-> NoCounters,
     errors |-> 0, pending |-> <<>>, examined |-> <<>>, stored |-> 0,
     faulted |-> FALSE]

ParserAtRest ==
    /\ fp_call = FpIdle
    /\ scan = ScanIdle

\* one publish process at most is running
RaceAtRest == procs = <<>>

\* Either a pair that differs in link and fingerprint, so that the titles
\* decide: a title with every rendering of its own words, and with the plain
\* and the capitalised rendering of every other word list.  Or a pair of
\* IdentityPairs.
InitSame ==
    /\ \/ \E ws1 \in TitleWordLists, ws2 \in TitleWordLists, how \in Renderings :
            /\ ws1 = ws2 \/ how \in {"plain", "capitalised"}
            /\ news1 = Item(Plain(ws1), <<"x">>, <<"f">>)
            /\ news2 = Item(Render(how, ws2), <<"y">>, <<"g">>)
       \/ \E pair \in IdentityPairs :
            /\ news1 = pair[1]
            /\ news2 = pair[2]
    /\ same_call = [done |-> FALSE, result |-> FALSE]
    /\ ParserAtRest
    /\ RaceAtRest
    /\ ForbesAtRest
    /\ StoreAtRest
    /\ PublishAtRest
    /\ FilesAtRest

CallIsSameNews ==
    /\ ~same_call.done
    /\ same_call' = [done |-> TRUE, result |-> is_same_news(news1, news2)]
    /\ UNCHANGED <<news1, news2, parserVars, raceVars, forbesVars, storeVars, publishVars, fileVars>>

NextSame == CallIsSameNews

SpecSame == InitSame /\ [][NextSame]_vars

(***************************************************************************)
(* Claims about is_same_news (SpecSame).                                   *)
(***************************************************************************)
Present(n) == n # None
WordSet(title) == ToSet(split(lower(title)))
NormTitle(title) == strip(lower(title))

SameFingerprint(a, b) ==
    a.fingerprint # NoFp /\ b.fingerprint # NoFp /\ a.fingerprint = b.fingerprint

\* |A n B| / |A u B| > 0.7
JaccardAbove(A, B) == 10 * Cardinality(A \cap B) > 7 * Cardinality(A \cup B)

\* |A n B| / max(|A|, |B|) > 0.7, for non-empty A and B
OverlapAbove(A, B) ==
    /\ A # {} /\ B # {}
    /\ \E m \in {Cardinality(A), Cardinality(B)} :
          /\ m >= Cardinality(A) /\ m >= Cardinality(B)
          /\ 10 * Cardinality(A \cap B) > 7 * m

\* C9 as stated: is_same_news returns true exactly when the fingerprints are
\* present and equal, or the links are equal, or the normalised titles are
\* equal, or the Jaccard similarity of the title word sets is above 0.7.
C9_AsStated ==
    same_call.done =>
        (same_call.result <=>
            /\ Present(news1) /\ Present(news2)
            /\ \/ SameFingerprint(news1, news2)
               \/ news1.link = news2.link
               \/ NormTitle(news1.title) = NormTitle(news2.title)
               \/ JaccardAbove(WordSet(news1.title), WordSet(news2.title)))

\* C9 as amended: the fourth rule divides the number of shared words by the
\* size of the larger word set (not of the union), and needs both sets
\* non-empty.
C9_SameNewsRule ==
    same_call.done =>
        (same_call.result <=>
            /\ Present(news1) /\ Present(news2)
            /\ \/ SameFingerprint(news1, news2)
               \/ news1.link = news2.link
               \/ NormTitle(news1.title) = NormTitle(news2.title)
               \/ OverlapAbove(WordSet(news1.title), WordSet(news2.title)))

\* C9 witness: a call decided by the fourth rule alone, where the overlap
\* measure and the Jaccard measure disagree.
C9_Witness ==
    /\ same_call.done /\ same_call.result
    /\ Present(news1) /\ Present(news2)
    /\ ~SameFingerprint(news1, news2)
    /\ news1.link # news2.link
    /\ NormTitle(news1.title) # NormTitle(news2.title)
    /\ ~JaccardAbove(WordSet(news1.title), WordSet(news2.title))

DifferentIdentity(a, b) ==
    /\ Present(a) /\ Present(b)
    /\ a.link # b.link
    /\ a.fingerprint # NoFp /\ b.fingerprint # NoFp /\ a.fingerprint # b.fingerprint

IsPunctuation(c) == c = "."

\* t2 is t1 with one punctuation mark after its last word
TrailingPunctuation(t1, t2) ==
    /\ t1 # <<>>
    /\ ~IsSpace(t1[Len(t1)]) /\ ~IsPunctuation(t1[Len(t1)])
    /\ Len(t2) = Len(t1) + 1
    /\ SubSeq(t2, 1, Len(t1)) = t1
    /\ IsPunctuation(t2[Len(t2)])

\* t1 and t2 hold the same words in the same order and differ in whitespace
WhitespaceOnly(t1, t2) == t1 # t2 /\ split(t1) = split(t2)

\* C10 as stated: candidates with different links and fingerprints whose
\* titles differ only by trailing punctuation on the last word, or only by
\* the amount of whitespace, are judged the same, whatever the number of words.
C10_AsStated ==
    (/\ same_call.done
     /\ DifferentIdentity(news1, news2)
     /\ \/ TrailingPunctuation(news1.title, news2.title)
        \/ WhitespaceOnly(news1.title, news2.title))
    => same_call.result

\* C10 as amended: a difference in whitespace alone is always tolerated; a
\* punctuation mark after the last word is tolerated when the title has at
\* least four distinct words.
C10_FormattingDrift ==
    (/\ same_call.done
     /\ DifferentIdentity(news1, news2)
     /\ \/ /\ TrailingPunctuation(news1.title, news2.title)
           /\ Cardinality(WordSet(news1.title)) >= 4
        \/ WhitespaceOnly(news1.title, news2.title))
    => same_call.result

\* C10 witness: a four-word title and the same title with a final full stop,
\* under different links and fingerprints, judged the same.
C10_Witness ==
    /\ same_call.done /\ same_call.result
    /\ DifferentIdentity(news1, news2)
    /\ TrailingPunctuation(news1.title, news2.title)
    /\ Cardinality(WordSet(news1.title)) >= 4

(***************************************************************************)
(* SpecForbes: ingestion runs of the Forbes parser, one after the other.   *)
(* The marker file starts missing, unreadable, or holding an article that  *)
(* is no longer on the page.                                               *)
(***************************************************************************)
Revisions == {"class", "function"}

InitForbes ==
    /\ last_news_file \in {NoFile, Corrupt, save_last_news(Article(EntryGone))}
    /\ parse = ParseIdle
    /\ SameAtRest
    /\ ParserAtRest
    /\ RaceAtRest
    /\ StoreAtRest
    /\ PublishAtRest
    /\ FilesAtRest

\* parse_forbes_ai up to the scrape: load_last_news; the page is not read yet
ParseStart(rev) ==
    /\ parse.pc # "scraping"
    /\ parse' = [pc |-> "scraping", revision |-> rev,
                 last_news |-> load_last_news(last_news_file), page |-> <<>>,
                 all_articles |-> <<>>, articles |-> <<>>, saved |-> FALSE]
    /\ UNCHANGED <<last_news_file, sameVars, parserVars, raceVars, storeVars, publishVars, fileVars>>

\* no driver, or the page did not load: return [] and leave the marker alone
ParseFail ==
    /\ parse.pc = "scraping"
    /\ parse.page = <<>>
    /\ parse' = [parse EXCEPT !.pc = "failed"]
    /\ UNCHANGED <<last_news_file, sameVars, parserVars, raceVars, storeVars, publishVars, fileVars>>

\* the page shows one more entry
ScrapeEntry(e) ==
    /\ parse.pc = "scraping"
    /\ Len(parse.page) < MaxPage
    /\ ~OnPage(parse.page, e)
    /\ parse' = [parse EXCEPT !.page = Append(@, e)]
    /\ UNCHANGED <<last_news_file, sameVars, parserVars, raceVars, storeVars, publishVars, fileVars>>

\* class revision: the rest of parse_forbes_ai once the scrape loop has ended
ParseReturn ==
    /\ parse.pc = "scraping"
    /\ parse.revision = "class"
    /\ LET all == ScrapeAll(parse.page)
       IN  /\ parse' = [parse EXCEPT !.pc = "returned",
                                     !.all_articles = all,
                                     !.articles = NewArticles(all, parse.last_news),
                                     !.saved = (all # <<>>)]
           /\ last_news_file' = MarkerAfter(last_news_file, all, parse.last_news)
    /\ UNCHANGED <<sameVars, parserVars, raceVars, storeVars, publishVars, fileVars>>

\* function revision: both scans, then the marker
ParseReturnFn ==
    /\ parse.pc = "scraping"
    /\ parse.revision = "function"
    /\ LET found == NewArticlesFn(parse.page, parse.last_news)
       IN  /\ parse' = [parse EXCEPT !.pc = "returned",
                                     !.all_articles = ScrapeAll(parse.page),
                                     !.articles = found,
                                     !.saved = (found # <<>>)]
           /\ last_news_file' = MarkerAfterFn(last_news_file, found)
    /\ UNCHANGED <<sameVars, parserVars, raceVars, storeVars, publishVars, fileVars>>

NextForbes ==
    \/ \E rev \in Revisions : ParseStart(rev)
    \/ ParseFail
    \/ \E e \in PageEntries : ScrapeEntry(e)
    \/ ParseReturn
    \/ ParseReturnFn

SpecForbes == InitForbes /\ [][NextForbes]_vars

(***************************************************************************)
(* Claims about the ingestion run (SpecForbes).                            *)
(***************************************************************************)
Returned(rev) == parse.pc = "returned" /\ parse.revision = rev

\* the dated valid entries of the page, as articles, in page order
RECURSIVE Containers(_)
Containers(page) ==
    IF page = <<>> THEN <<>>
    ELSE IF Head(page).date # <<>> /\ ValidEntry(Head(page))
    THEN <<Article(Head(page))>> \o Containers(Tail(page))
    ELSE Containers(Tail(page))

\* the first article of every link, in order
RECURSIVE FirstByLink(_, _)
FirstByLink(articles, seen) ==
    IF articles = <<>> THEN <<>>
    ELSE IF Head(articles).link \in seen THEN FirstByLink(Tail(articles), seen)
    ELSE <<Head(articles)>>
             \o FirstByLink(Tail(articles), seen \cup {Head(articles).link})

\* The scraped list of the run that returned: all_articles in the class
\* revision; in the function revision, which keeps no such list, the dated
\* containers, one per link.
Scraped ==
    IF parse.revision = "class" THEN parse.all_articles
    ELSE FirstByLink(Containers(parse.page), {})

\* positions of the scraped list that hold the stored marker's own article
MarkerPositions ==
    {i \in 1..Len(Scraped) :
        /\ Scraped[i].title = parse.last_news.title
        /\ Scraped[i].link = parse.last_news.link}

\* positions of the scraped list that is_same_news takes for the marker
SamePositions ==
    {i \in 1..Len(Scraped) : is_same_news(Scraped[i], parse.last_news)}

Lowest(S) == CHOOSE i \in S : \A j \in S : i <= j

IsPrefix(p, q) == Len(p) <= Len(q) /\ SubSeq(q, 1, Len(p)) = p

\* C6 as stated: when the stored marker's article sits at position k of the
\* scraped list, the class-revision run returns exactly the k-1 items above
\* it, in scraped order.
C6_AsStated ==
    (Returned("class") /\ parse.last_news # None /\ MarkerPositions # {})
        => parse.articles = SubSeq(Scraped, 1, Lowest(MarkerPositions) - 1)

\* C6: when k is the first position of the scraped list whose item
\* is_same_news takes for the stored marker, the class-revision run returns
\* exactly the k-1 items above it, in scraped order, and none of the returned
\* items is taken for the marker.
C6_IncrementalStop ==
    (Returned("class") /\ parse.last_news # None /\ SamePositions # {})
        => /\ parse.articles = SubSeq(Scraped, 1, Lowest(SamePositions) - 1)
           /\ \A j \in 1..Len(parse.articles) :
                  ~is_same_news(parse.articles[j], parse.last_news)

\* a run that met the marker at the third place of a longer page and
\* returned the two items above it
C6_Witness ==
    /\ Returned("class")
    /\ parse.last_news # None
    /\ SamePositions # {}
    /\ Lowest(SamePositions) = 3
    /\ Len(parse.articles) = 2
    /\ Len(Scraped) > 3

MarkerNotFoundFn ==
    /\ Returned("function")
    /\ parse.last_news # None
    /\ SamePositions = {}
    /\ Len(Scraped) >= 3
    /\ IsPrefix(Scraped, parse.articles)

\* C8 as stated: after every ingestion run that scraped something, the
\* marker file holds the first item of the full scraped list, and the run
\* wrote it, new items or not.
C8_AsStated ==
    (parse.pc = "returned" /\ Scraped # <<>>)
        => /\ last_news_file = save_last_news(Scraped[1])
           /\ parse.saved

\* the class revision alone does write the marker after every run
MarkerFreshClass ==
    (Returned("class") /\ Scraped # <<>>)
        => /\ last_news_file = save_last_news(Scraped[1])
           /\ parse.saved

\* a class-revision run that found nothing new and wrote the marker
MarkerFreshNoNews ==
    /\ Returned("class")
    /\ Scraped # <<>>
    /\ parse.articles = <<>>
    /\ parse.saved

(***************************************************************************)
(* SpecStore: the news table under add_article calls of two parser         *)
(* processes and mark_article_posted calls, in any order.  SQLite runs     *)
(* each INSERT or UPDATE with its commit as one step.                      *)
(***************************************************************************)
InitStore ==
    /\ StoreAtRest
    /\ SameAtRest
    /\ ParserAtRest
    /\ RaceAtRest
    /\ ForbesAtRest
    /\ PublishAtRest
    /\ FilesAtRest

\* NewsDB.__init__: connect creates the file, _init_schema the table if missing
OpenDB ==
    /\ db_exists' = TRUE
    /\ news' = init_schema(news)
    /\ UNCHANGED <<utcnow, add_call, mark_call, tie_order, sameVars, parserVars, raceVars, forbesVars, publishVars, fileVars>>

\* time passes
Tick ==
    /\ utcnow < MaxTime
    /\ utcnow' = utcnow + 1
    /\ UNCHANGED <<db_exists, news, add_call, mark_call, tie_order, sameVars, parserVars, raceVars, forbesVars, publishVars, fileVars>>

\* parser process p calls add_article and counts what it returned; fault is
\* an sqlite error other than IntegrityError (database locked, disk I/O)
AddArticle(p, site, title, link, pub_date, fault) ==
    /\ db_exists
    /\ LET row == NewRow(news, site, title, link, pub_date, utcnow)
       IN  /\ news' = IF fault THEN news ELSE TableAfterInsert(news, row)
           /\ add_call' = [add_call EXCEPT ![p] =
                              [title |-> title, link |-> link,
                               outcome |-> InsertOutcome(news, row, fault),
                               counted |-> Counted(AddResult(
                                               InsertOutcome(news, row, fault))),
                               errors |-> ErrorsAppended(AddResult(
                                              InsertOutcome(news, row, fault)))]]
    /\ UNCHANGED <<db_exists, utcnow, mark_call, tie_order, sameVars, parserVars, raceVars, forbesVars, publishVars, fileVars>>

\* mark_article_posted(conn, id_)
MarkPosted(id) ==
    /\ db_exists
    /\ id \in 1..Len(news)
    /\ news' = TableAfterUpdate(news, id)
    /\ mark_call' = [id |-> id, outcome |-> "updated", met |-> news[id].status]
    /\ UNCHANGED <<db_exists, utcnow, add_call, tie_order, sameVars, parserVars, raceVars, forbesVars, publishVars, fileVars>>

NextStore ==
    \/ OpenDB
    \/ Tick
    \/ \E p \in Parsers, site \in Sites, a \in StoreArticles, d \in PubDates,
          fault \in BOOLEAN :
            AddArticle(p, site, a.title, a.link, d, fault)
    \/ \E id \in 1..Len(news) : MarkPosted(id)

SpecStore == InitStore /\ [][NextStore]_vars

(***************************************************************************)
(* Claims about the news table (SpecStore).                                *)
(***************************************************************************)
RowsOf(table, title, link) ==
    {i \in 1..Len(table) : table[i].title = title /\ table[i].link = link}

RowsWith(table, fp) == {i \in 1..Len(table) : table[i].fingerprint = fp}

UniqueFingerprints ==
    \A i, j \in 1..Len(news) :
        i # j => news[i].fingerprint # news[j].fingerprint

\* process p has just finished an add_article call that met no sqlite error
AddReturned(p) ==
    /\ add_call'[p] # add_call[p]
    /\ add_call'[p].outcome # "error"

\* the last calls of two processes carried the same (title, link) and met
\* no sqlite error
SameInsert(p, q) ==
    /\ p # q
    /\ add_call[p].outcome \in {"inserted", "duplicate"}
    /\ add_call[q].outcome \in {"inserted", "duplicate"}
    /\ add_call[p].title = add_call[q].title
    /\ add_call[p].link = add_call[q].link

RaceHasOneWinner ==
    \A p, q \in Parsers :
        SameInsert(p, q) =>
            /\ ~(add_call[p].outcome = "inserted" /\ add_call[q].outcome = "inserted")
            /\ Cardinality(RowsWith(news,
                   fingerprint(add_call[p].title, add_call[p].link))) = 1

LoserChangesNothing ==
    \A p \in Parsers :
        (AddReturned(p) /\ RowsOf(news, add_call'[p].title, add_call'[p].link) # {})
            => add_call'[p].outcome = "duplicate" /\ news' = news

FirstCallInserts ==
    \A p \in Parsers :
        AddReturned(p) =>
            LET c == add_call'[p]
            IN  IF RowsOf(news, c.title, c.link) = {}
                THEN /\ AddResult(c.outcome)
                     /\ Cardinality(RowsOf(news', c.title, c.link)) = 1
                ELSE ~AddResult(c.outcome) /\ news' = news

TwiceLeavesOneRow ==
    \A p \in Parsers :
        AddReturned(p) =>
            LET c == add_call'[p]
                fp == fingerprint(c.title, c.link)
            IN  /\ Cardinality(RowsOf(news', c.title, c.link)) <= 1
                /\ RowsOf(news, c.title, c.link) # {}
                      => ~AddResult(c.outcome) /\ news' = news
                /\ ~HasFingerprint(news, fp)
                      => /\ AddResult(c.outcome)
                         /\ Len(news') = Len(news) + 1
                         /\ SubSeq(news', 1, Len(news)) = news
                         /\ news'[Len(news')].title = c.title
                         /\ news'[Len(news')].link = c.link
                         /\ news'[Len(news')].status = "new"

PostedStaysPosted ==
    /\ Len(news') >= Len(news)
    /\ \A i \in 1..Len(news) :
          /\ news'[i].id = news[i].id
          /\ news[i].status = "posted" => news'[i].status = "posted"

MarkOnlyMarks ==
    mark_call' # mark_call =>
        /\ Len(news') = Len(news)
        /\ \A i \in 1..Len(news) :
              IF news[i].id = mark_call'.id
              THEN news'[i] = [news[i] EXCEPT !.status = "posted"]
              ELSE news'[i] = news[i]
        /\ Cardinality({i \in 1..Len(news') : news'[i].id = mark_call'.id}) = 1

C4_StatusMonotonic == [][PostedStaysPosted /\ MarkOnlyMarks]_vars

\* a posted row met by a second mark_article_posted call and by a duplicate insert
C4_Witness ==
    /\ mark_call # NoCall
    /\ mark_call.met = "posted"
    /\ news[mark_call.id].status = "posted"
    /\ \E p \in Parsers :
          /\ add_call[p].outcome = "duplicate"
          /\ add_call[p].title = news[mark_call.id].title
          /\ add_call[p].link = news[mark_call.id].link

(***************************************************************************)
(* SpecPublish: the publishing script runs again and again, each run       *)
(* starting after the one before has ended, while ingestion goes on.       *)
(* The script is the database variant (process_one_article) or the file    *)
(* variant (process_news_for_telegram).  Storage calls are taken to        *)
(* succeed; the summarizer, the illustrator and the publisher may fail.    *)
(***************************************************************************)
InitPublish ==
    /\ variant \in {"db", "file"}
    /\ handler = HandlerIdle
    /\ channel = <<>>
    /\ db_exists = FALSE
    /\ news = <<>>
    /\ utcnow = 0
    /\ add_call = [p \in Parsers |-> NoCall]
    /\ mark_call = NoCall
    /\ tie_order \in IF variant = "db" THEN {"first", "last"} ELSE {"first"}
    /\ FilesAtRest
    /\ SameAtRest
    /\ ParserAtRest
    /\ RaceAtRest
    /\ ForbesAtRest

\* mutant of Done: every run reports success
DoneOk(h, ok, reason) == [h EXCEPT !.pc = "done", !.ok = TRUE, !.reason = reason]

\* the run returns: ok is the "ok" of the result (database variant) or the
\* value returned (file variant)
Done(h, ok, reason) == [h EXCEPT !.pc = "done", !.ok = ok, !.reason = reason]

\* process_one_article up to the summarizer call: the environment check,
\* the database check and get_next_article
HStart(env_ok) ==
    /\ variant = "db"
    /\ handler.pc \in {"idle", "done"}
    /\ LET fresh == [HandlerIdle EXCEPT !.before = PostedIds(news),
                                       !.seen = Len(news)]
       IN  IF ~env_ok THEN handler' = Done(fresh, FALSE, "telegram not set")
           ELSE IF ~db_exists THEN handler' = Done(fresh, TRUE, "db missing")
           ELSE IF get_next_article(news) = {} THEN handler' = Done(fresh, TRUE, "no new")
           ELSE handler' = [fresh EXCEPT
                               !.pc = "gpt",
                               !.item = fetchone(get_next_article(news), tie_order)]
    /\ UNCHANGED <<variant, channel, sameVars, parserVars, raceVars, forbesVars, storeVars, fileVars>>

\* yandex_gpt_call returned a summary, or None
HGpt(ok) ==
    /\ variant = "db"
    /\ handler.pc = "gpt"
    /\ handler' = IF ok THEN [handler EXCEPT !.pc = "art"]
                  ELSE Done(handler, FALSE, "gpt failed")
    /\ UNCHANGED <<variant, channel, sameVars, parserVars, raceVars, forbesVars, storeVars, fileVars>>

\* generate_image returned the image bytes, or None
HArt(image) ==
    /\ variant = "db"
    /\ handler.pc = "art"
    /\ handler' = [handler EXCEPT !.pc = "send", !.image = image]
    /\ UNCHANGED <<variant, channel, sameVars, parserVars, raceVars, forbesVars, storeVars, fileVars>>

\* send_photo_to_telegram when there is an image, send_text_to_telegram
\* when nothing went out yet
HSend(photo_ok, text_ok) ==
    /\ variant = "db"
    /\ handler.pc = "send"
    /\ LET n == TelegramSends(handler.image, photo_ok, text_ok)
       IN  /\ channel' = channel \o Repeat(handler.item.id, n)
           /\ handler' = IF n > 0 THEN [handler EXCEPT !.pc = "mark", !.sent = n]
                         ELSE Done(handler, FALSE, "send failed")
    /\ UNCHANGED <<variant, sameVars, parserVars, raceVars, forbesVars, storeVars, fileVars>>

\* mark_article_posted(conn, article_id) and the return
HMark ==
    /\ variant = "db"
    /\ handler.pc = "mark"
    /\ news' = TableAfterUpdate(news, handler.item.id)
    /\ mark_call' = [id |-> handler.item.id, outcome |-> "updated",
                     met |-> news[handler.item.id].status]
    /\ handler' = Done(handler, TRUE, "posted")
    /\ UNCHANGED <<variant, channel, db_exists, utcnow, add_call, tie_order,
                   sameVars, parserVars, raceVars, forbesVars, fileVars>>

\* the Forbes parser found articles and save_results wrote them to a new file
SaveResults(articles) ==
    /\ variant = "file"
    /\ file_serial < MaxFiles
    /\ RecordsHeld(results_dir) + Len(articles) <= MaxRecords
    /\ file_serial' = file_serial + 1
    /\ results_dir' = DirAfterSave(results_dir, file_serial + 1, articles)
    /\ UNCHANGED <<sent_file, sameVars, parserVars, raceVars, forbesVars, storeVars, publishVars>>

\* process_news_for_telegram up to the summarizer call: load_sent_news and
\* get_oldest_unsent_news
FStart ==
    /\ variant = "file"
    /\ handler.pc \in {"idle", "done"}
    /\ LET sent_news == load_sent_news(sent_file)
           fresh == [HandlerIdle EXCEPT !.before = sent_news, !.seen = file_serial]
           news_data == get_oldest_unsent_news(results_dir, sent_news)
       IN  handler' = IF news_data = None THEN Done(fresh, TRUE, "no news")
                      ELSE [fresh EXCEPT !.pc = "gpt", !.item = news_data]
    /\ UNCHANGED <<variant, channel, sameVars, parserVars, raceVars, forbesVars, storeVars, fileVars>>

FGpt(ok) ==
    /\ variant = "file"
    /\ handler.pc = "gpt"
    /\ handler' = IF ok THEN [handler EXCEPT !.pc = "art"]
                  ELSE Done(handler, FALSE, "gpt failed")
    /\ UNCHANGED <<variant, channel, sameVars, parserVars, raceVars, forbesVars, storeVars, fileVars>>

FArt(image) ==
    /\ variant = "file"
    /\ handler.pc = "art"
    /\ handler' = [handler EXCEPT !.pc = "send", !.image = image]
    /\ UNCHANGED <<variant, channel, sameVars, parserVars, raceVars, forbesVars, storeVars, fileVars>>

\* the one send of the file variant
FSend(send_ok) ==
    /\ variant = "file"
    /\ handler.pc = "send"
    /\ LET n == TelegramSendsFile(handler.image, send_ok)
       IN  /\ channel' = channel \o Repeat(handler.item.news_hash, n)
           /\ handler' = IF n > 0 THEN [handler EXCEPT !.pc = "mark", !.sent = n]
                         ELSE Done(handler, FALSE, "send failed")
    /\ UNCHANGED <<variant, sameVars, parserVars, raceVars, forbesVars, storeVars, fileVars>>

\* mark_news_sent_and_cleanup: the Sent-Set of this run with the hash is
\* saved, the news is removed from its file, the file goes when it is empty
FMark ==
    /\ variant = "file"
    /\ handler.pc = "mark"
    /\ sent_file' = save_sent_news(handler.before \cup {handler.item.news_hash})
    /\ results_dir' = DirAfterCleanup(results_dir, handler.item.filepath,
                                      handler.item.news_line)
    /\ handler' = Done(handler, TRUE, "sent")
    /\ UNCHANGED <<variant, channel, file_serial, sameVars, parserVars, raceVars, forbesVars, storeVars>>

NextPublish ==
    \/ variant = "db" /\ OpenDB
    \/ variant = "db" /\ Tick
    \/ /\ variant = "db"
       /\ \E site \in Sites, a \in StoreArticles, d \in PubDates, fault \in BOOLEAN :
             AddArticle("p1", site, a.title, a.link, d, fault)
    \/ \E env_ok \in BOOLEAN : HStart(env_ok)
    \/ \E ok \in BOOLEAN : HGpt(ok)
    \/ \E image \in BOOLEAN : HArt(image)
    \/ \E photo_ok, text_ok \in BOOLEAN : HSend(photo_ok, text_ok)
    \/ HMark
    \/ \E articles \in ArticleLists : SaveResults(articles)
    \/ FStart
    \/ \E ok \in BOOLEAN : FGpt(ok)
    \/ \E image \in BOOLEAN : FArt(image)
    \/ \E send_ok \in BOOLEAN : FSend(send_ok)
    \/ FMark

SpecPublish == InitPublish /\ [][NextPublish]_vars

(***************************************************************************)
(* Claims about publish runs (SpecPublish).                                *)
(***************************************************************************)
DeliveredOnce ==
    \A i, j \in 1..Len(channel) : i # j => channel[i] # channel[j]

\* the article a run has selected and not yet sent was never sent before
SelectedIsUnsent ==
    handler.pc \in {"gpt", "art", "send"} =>
        \A i \in 1..Len(channel) : channel[i] # handler.item.id

\* C1: database variant, across any sequence of publish runs, each free to
\* fail at the summarizer, the illustrator or the publisher: no article id
\* is in the channel more than once, and the article a run selects is not
\* in the channel.
C1_AtMostOnce == variant = "db" => DeliveredOnce /\ SelectedIsUnsent

\* two articles delivered by two runs, and a later run that found nothing to send
C1_Witness ==
    /\ variant = "db"
    /\ Len(channel) = 2
    /\ handler.pc = "done"
    /\ handler.reason = "no new"
    /\ mark_call # NoCall

\* what is marked consumed, and the article the run selected
Consumed == IF variant = "db" THEN PostedIds(news) ELSE load_sent_news(sent_file)
Selected == IF variant = "db" THEN handler.item.id ELSE handler.item.news_hash

\* C5: one publish run puts at most one message into the channel; until
\* its message is out it marks nothing; when it ends, it has marked the
\* selected article (status 'posted', or hash in the Sent-Set) and no other
\* if its message went out, and nothing if not.
C5_OneMessagePerRun ==
    /\ handler.sent <= 1
    /\ handler.pc \in {"gpt", "art", "send", "mark"} => Consumed = handler.before
    /\ handler.pc = "mark" => handler.sent = 1
    /\ handler.pc = "done" =>
          Consumed = handler.before
                         \cup (IF handler.sent = 1 THEN {Selected} ELSE {})

\* a run of the file variant that sent its message and added the hash to a
\* Sent-Set that held another hash
C5_Witness ==
    /\ variant = "file"
    /\ handler.pc = "done"
    /\ handler.sent = 1
    /\ handler.before # {}
    /\ Consumed = handler.before \cup {Selected}
    /\ Selected \notin handler.before

\* the same in the database variant, the photo having failed and the text not
OneMessagePerRunDb ==
    /\ variant = "db"
    /\ handler.pc = "done"
    /\ handler.sent = 1
    /\ handler.image
    /\ handler.before # {}
    /\ Consumed = handler.before \cup {Selected}

(***************************************************************************)
(* Claims about the selection of the file variant (SpecPublish).           *)
(***************************************************************************)
\* a step that starts a run of the file variant
FileRunStarts ==
    /\ variant = "file"
    /\ handler.pc \in {"idle", "done"}
    /\ handler' # handler

\* the (file, record) pairs a run may select: the records parse_news_file
\* returns whose hash is not in the Sent-Set
UnsentRecords(dir, sent_news) ==
    UNION {{<<dir[i].name, line>> :
               line \in {l \in ToSet(parse_news_file(dir[i])) :
                            news_hash(l) \notin sent_news}} : i \in 1..Len(dir)}

SelectionIsUnsent ==
    FileRunStarts =>
        LET sent_news == load_sent_news(sent_file)
            unsent == UnsentRecords(results_dir, sent_news)
        IN  /\ handler'.item = None <=> unsent = {}
            /\ handler'.item = None => handler'.pc = "done" /\ handler'.sent = 0
            /\ handler'.item # None =>
                  /\ handler'.item.news_hash \notin sent_news
                  /\ handler'.item.news_hash = news_hash(handler'.item.news_line)
                  /\ <<handler'.item.filepath, handler'.item.news_line>> \in unsent

\* C11: get_oldest_unsent_news never returns a record whose hash is in the
\* Sent-Set; it returns None exactly when no result file holds a parseable
\* record whose hash is outside the Sent-Set; what it returns is the record,
\* the hash of that record and the file the record was read from.
C11_SelectsUnsent == [][SelectionIsUnsent]_vars

\* a run that passed over a record whose hash is in the Sent-Set and
\* selected the record above it
C11_Witness ==
    /\ variant = "file"
    /\ handler.pc = "gpt"
    /\ handler.before # {}
    /\ \E i \in 1..Len(results_dir) :
          /\ results_dir[i].name = handler.item.filepath
          /\ LET lines == parse_news_file(results_dir[i])
             IN  /\ Len(lines) = 2
                 /\ lines[1] = handler.item.news_line
                 /\ news_hash(lines[2]) \in handler.before

(***************************************************************************)
(* Claims about mark_news_sent_and_cleanup (SpecPublish, file variant).    *)
(***************************************************************************)
\* a step in which a run calls mark_news_sent_and_cleanup
FileMarks ==
    /\ variant = "file"
    /\ handler.pc = "mark"
    /\ handler'.pc = "done"

FileExists(dir, filepath) == \E i \in 1..Len(dir) : dir[i].name = filepath

FileNamed(dir, filepath) == CHOOSE f \in ToSet(dir) : f.name = filepath

\* what parse_news_file returns for filepath; nothing when the file is gone
RecordsOf(dir, filepath) ==
    IF FileExists(dir, filepath) THEN parse_news_file(FileNamed(dir, filepath))
    ELSE <<>>

OtherRecordsStay ==
    FileMarks =>
        \A line \in ToSet(RecordsOf(results_dir, handler.item.filepath)) :
            line # handler.item.news_line =>
                line \in ToSet(RecordsOf(results_dir', handler.item.filepath))

\* C12: mark_news_sent_and_cleanup removes from the file exactly the
\* selected record; every other record that parse_news_file returned for
\* the file before the call is returned, with the same title and link,
\* after the call.
C12_AsStated == [][OtherRecordsStay]_vars

DeletedIffLastRecord ==
    FileMarks =>
        LET before == RecordsOf(results_dir, handler.item.filepath)
            after == RecordsOf(results_dir', handler.item.filepath)
        IN  /\ Len(before) >= 2 =>
                  /\ FileExists(results_dir', handler.item.filepath)
                  /\ Len(after) = Len(before) - 1
            /\ Len(before) = 1 => ~FileExists(results_dir', handler.item.filepath)

\* C13: after mark_news_sent_and_cleanup the file is deleted if and only if
\* no record remains in it: a file that held n > 1 records holds n - 1 and
\* still exists, a file whose last record was removed is gone.
C13_AsStated == [][DeletedIffLastRecord]_vars

\* the file the run prunes is in the block format before and after the call
BlockFormatStays ==
    /\ FileMarks
    /\ FileExists(results_dir, handler.item.filepath)
    /\ FileNamed(results_dir, handler.item.filepath).header
    /\ FileExists(results_dir', handler.item.filepath)
    /\ FileNamed(results_dir', handler.item.filepath).header

CountDropsByOne ==
    BlockFormatStays =>
        FileNamed(results_dir', handler.item.filepath).count
            = Max(0, FileNamed(results_dir, handler.item.filepath).count - 1)

CountFollowsBlocks ==
    BlockFormatStays =>
        LET old == FileNamed(results_dir, handler.item.filepath)
            new == FileNamed(results_dir', handler.item.filepath)
        IN  /\ new.count = Max(0, old.count - (Len(old.records) - Len(new.records)))
            /\ Len(new.records) < Len(old.records)
            /\ old.count = Len(old.records) => new.count = Len(new.records)

CountIsBlocks ==
    \A i \in 1..Len(results_dir) :
        results_dir[i].header => results_dir[i].count = Len(results_dir[i].records)

InitPrune ==
    /\ variant = "file"
    /\ handler = HandlerIdle
    /\ channel = <<>>
    /\ StoreAtRest
    /\ FilesAtRest
    /\ SameAtRest
    /\ ParserAtRest
    /\ RaceAtRest
    /\ ForbesAtRest

\* a manager is made (load_sent_news) and a record of a file is taken
TakeRecord(i, k) ==
    /\ variant = "file"
    /\ handler.pc \in {"idle", "done"}
    /\ i \in 1..Len(results_dir)
    /\ k \in 1..Len(parse_news_file(results_dir[i]))
    /\ LET news_line == parse_news_file(results_dir[i])[k]
       IN  handler' = [HandlerIdle EXCEPT
                          !.pc = "mark",
                          !.before = load_sent_news(sent_file),
                          !.item = [news_line |-> news_line,
                                    news_hash |-> news_hash(news_line),
                                    filepath |-> results_dir[i].name]]
    /\ UNCHANGED <<variant, channel, sameVars, parserVars, raceVars, forbesVars, storeVars, fileVars>>

\* mark_news_sent_and_cleanup once more, with the arguments of the call before
FMarkAgain ==
    /\ variant = "file"
    /\ handler.pc = "done"
    /\ handler.reason = "sent"
    /\ sent_file' = save_sent_news(handler.before \cup {handler.item.news_hash})
    /\ results_dir' = DirAfterCleanup(results_dir, handler.item.filepath,
                                      handler.item.news_line)
    /\ handler' = Done(handler, TRUE, "sent again")
    /\ UNCHANGED <<variant, channel, file_serial, sameVars, parserVars, raceVars, forbesVars, storeVars>>

NextPrune ==
    \/ \E articles \in ArticleLists : SaveResults(articles)
    \/ \E i \in 1..MaxFiles, k \in 1..MaxRecords : TakeRecord(i, k)
    \/ FMark
    \/ FMarkAgain

SpecPrune == InitPrune /\ [][NextPrune]_vars

(***************************************************************************)
(* Claims about repeated calls (SpecPrune).                                *)
(***************************************************************************)
SecondCallChangesNothing ==
    handler.reason = "sent" /\ handler'.reason = "sent again" =>
        /\ sent_file' = sent_file
        /\ ToSet(results_dir') = ToSet(results_dir)

\* C15: mark_news_sent_and_cleanup called twice with the same hash, record
\* and file leaves the Sent-Set and every file, its content or its absence,
\* as the first call left them; the second call removes nothing more.  (The
\* second call writes the file again, which makes it the youngest.)
C15_Idempotent == [][SecondCallChangesNothing]_vars

\* the second call met a file that lost its head lines in the first call
\* and still holds a record line
C15_Witness ==
    /\ handler.reason = "sent again"
    /\ FileExists(results_dir, handler.item.filepath)
    /\ ~FileNamed(results_dir, handler.item.filepath).header
    /\ RecordsOf(results_dir, handler.item.filepath) # <<>>

\* the second call met a file that still holds a record block, and one
\* where the file was gone
SecondCallOnBlocks ==
    /\ handler.reason = "sent again"
    /\ FileExists(results_dir, handler.item.filepath)
    /\ FileNamed(results_dir, handler.item.filepath).header

SecondCallOnNoFile ==
    /\ handler.reason = "sent again"
    /\ ~FileExists(results_dir, handler.item.filepath)

(***************************************************************************)
(* Claims about the Sent-Set (SpecPublish, file variant).                  *)
(***************************************************************************)
\* the hashes sent_news.json holds
Persisted(file) == IF file = NoFile \/ file = Corrupt THEN {} ELSE file.hashes

SentSetGrows == Persisted(sent_file) \subseteq Persisted(sent_file')

\* C16: across any sequence of publish runs, each loading the Sent-Set and
\* possibly saving it, a hash that was once in the persisted Sent-Set is in
\* it after every later step.
C16_SentSetMonotonic == [][SentSetGrows]_vars

\* a run saved a Sent-Set that holds the hash it sent and two hashes of
\* runs before it
C16_Witness ==
    /\ variant = "file"
    /\ handler.pc = "done"
    /\ handler.sent = 1
    /\ Cardinality(handler.before) = 2
    /\ handler.before \subseteq Persisted(sent_file)
    /\ handler.item.news_hash \in Persisted(sent_file)
    /\ handler.item.news_hash \notin handler.before

(***************************************************************************)
(* Claims about get_next_article (SpecPublish, database variant).          *)
(***************************************************************************)
\* a step that starts a run of the database variant and gets as far as
\* get_next_article
DbRunSelects ==
    /\ variant = "db"
    /\ handler.pc \in {"idle", "done"}
    /\ handler' # handler
    /\ handler'.reason \notin {"telegram not set", "db missing"}

NewRows(table) == {table[i] : i \in {i \in 1..Len(table) : table[i].status = "new"}}

NextIsEarliestNew ==
    DbRunSelects =>
        /\ handler'.item = None <=> NewRows(news) = {}
        /\ handler'.item # None =>
              /\ handler'.item \in NewRows(news)
              /\ handler'.item.status # "posted"
              /\ \A r \in NewRows(news) :
                    \/ handler'.item.pub_date < r.pub_date
                    \/ /\ handler'.item.pub_date = r.pub_date
                       /\ handler'.item.parsed_date <= r.parsed_date

\* C17: get_next_article returns a row with status 'new' that is minimal
\* under (pub_date, parsed_date) among the rows with status 'new', a row
\* without pub_date coming before every row with one; it returns no row
\* exactly when no row has status 'new'; it never returns a 'posted' row.
C17_EarliestNew == [][NextIsEarliestNew]_vars

\* the run selected the row of the lower pub_date, though it was inserted
\* after the other 'new' row
C17_Witness ==
    /\ variant = "db"
    /\ handler.pc = "gpt"
    /\ Len(news) = 2
    /\ news[1].status = "new"
    /\ news[2].status = "new"
    /\ handler.item = news[2]
    /\ news[2].pub_date < news[1].pub_date

\* the run passed over a 'posted' row of a lower pub_date
PostedRowPassedOver ==
    /\ variant = "db"
    /\ handler.pc = "gpt"
    /\ \E i \in 1..Len(news) :
          /\ news[i].status = "posted"
          /\ news[i].pub_date < handler.item.pub_date

(***************************************************************************)
(* Claims about failed publish runs (SpecPublish).                         *)
(***************************************************************************)
FailedReasons == {"gpt failed", "send failed"}

\* a step of a publish run other than its marking step
RunStepBeforeMark ==
    /\ handler' # handler
    /\ handler.pc # "mark"

\* how much has been ingested: rows of the table, result files written
Ingested == IF variant = "db" THEN Len(news) ELSE file_serial

\* a run starts right after a failed run, nothing having been ingested since
\* the failed run selected
RetryStarts ==
    /\ handler.pc = "done"
    /\ handler.reason \in FailedReasons
    /\ handler' # handler
    /\ handler'.reason # "telegram not set"
    /\ Ingested = handler.seen

FailedRunChangesNothing ==
    /\ RunStepBeforeMark =>
          /\ news' = news
          /\ sent_file' = sent_file
          /\ results_dir' = results_dir
    /\ handler.pc = "gpt" /\ handler'.pc = "done" =>
          handler'.reason = "gpt failed"
    /\ handler.pc = "send" /\ handler'.pc = "done" =>
          handler'.reason = "send failed"
    /\ handler'.reason \in FailedReasons =>
          /\ ~handler'.ok
          /\ handler'.sent = 0
          /\ handler'.pc = "done"
    /\ RetryStarts =>
          /\ handler'.pc = "gpt"
          /\ handler'.item = handler.item

\* C18: when the summarizer returns nothing or every publisher call of the
\* run fails, the run reports failure and has changed no row, no result
\* file and not the Sent-Set; the run after it selects the same article
\* when nothing was ingested in between.
C18_FailedRunRetries == [][FailedRunChangesNothing]_vars

\* database variant: the photo and the text both failed, the article is
\* still 'new', and another row is posted
C18_Witness ==
    /\ variant = "db"
    /\ handler.pc = "done"
    /\ handler.reason = "send failed"
    /\ handler.image
    /\ news[handler.item.id].status = "new"
    /\ handler.before # {}
    /\ PostedIds(news) = handler.before

\* file variant: the summarizer failed for a record of a file of two
SummarizerFailedFile ==
    /\ variant = "file"
    /\ handler.pc = "done"
    /\ handler.reason = "gpt failed"
    /\ Len(RecordsOf(results_dir, handler.item.filepath)) = 2

(***************************************************************************)
(* Claims about storage failures (SpecStore).                              *)
(***************************************************************************)
\* C19: when the insert in add_article fails for a reason other than a
\* duplicate fingerprint, the caller receives an outcome that differs from
\* the one of a duplicate: the failure is not counted as a duplicate and
\* the run reports an error.
C19_AsStated ==
    \A p \in Parsers :
        add_call[p].outcome = "error" =>
            /\ AddResult("error") # AddResult("duplicate")
            /\ add_call[p].counted # "duplicates"
            /\ add_call[p].errors > 0

(***************************************************************************)
(* SpecFirstRun: one of the scripts is started where no earlier run left   *)
(* anything: the Forbes parser (variant "none") with no marker file or an  *)
(* unreadable one, or a publishing script with no Sent-Set file, no result *)
(* files and no database.  Runs follow; what they leave is there for the   *)
(* next.                                                                   *)
(***************************************************************************)
InitFirstRun ==
    /\ variant \in {"none", "db", "file"}
    /\ last_news_file \in IF variant = "none" THEN {NoFile, Corrupt} ELSE {NoFile}
    /\ parse = ParseIdle
    /\ handler = HandlerIdle
    /\ channel = <<>>
    /\ db_exists = FALSE
    /\ news = <<>>
    /\ utcnow = 0
    /\ add_call = [p \in Parsers |-> NoCall]
    /\ mark_call = NoCall
    /\ tie_order \in IF variant = "db" THEN {"first", "last"} ELSE {"first"}
    /\ FilesAtRest
    /\ SameAtRest
    /\ ParserAtRest
    /\ RaceAtRest

NextFirstRun ==
    \/ variant = "none" /\ NextForbes
    \/ NextPublish

SpecFirstRun == InitFirstRun /\ [][NextFirstRun]_vars

(***************************************************************************)
(* Claims about first runs (SpecFirstRun).                                 *)
(***************************************************************************)
\* an ingestion run that read no marker returned: everything scraped is new
\* and the first item is the marker
NoMarkerAllNew ==
    (parse.pc = "returned" /\ parse.last_news = None) =>
        /\ parse.revision = "class" => parse.articles = Scraped
        /\ parse.revision = "function" => IsPrefix(Scraped, parse.articles)
        /\ Scraped # <<>> =>
              /\ last_news_file = save_last_news(Scraped[1])
              /\ parse.articles[1] = Scraped[1]

\* a run reads no marker exactly when the file is missing or unreadable
NoMarkerRead ==
    (parse.pc = "idle" /\ parse'.pc = "scraping") =>
        (parse'.last_news = None <=> last_news_file \in {NoFile, Corrupt})

\* a publish run of the file variant that finds no Sent-Set file starts
\* from the empty set; one that finds no result file ends at once
NoFilesNothingSent ==
    FileRunStarts =>
        /\ sent_file = NoFile => handler'.before = {}
        /\ results_dir = <<>> =>
              /\ handler'.pc = "done"
              /\ handler'.ok
              /\ handler'.sent = 0
              /\ sent_file' = sent_file
              /\ results_dir' = results_dir
              /\ channel' = channel

\* a publish run of the database variant that finds no database
NoDatabaseNothingSent ==
    (/\ variant = "db"
     /\ handler.pc \in {"idle", "done"}
     /\ handler' # handler
     /\ handler'.reason # "telegram not set"
     /\ ~db_exists) =>
        /\ handler'.pc = "done"
        /\ handler'.ok
        /\ handler'.sent = 0
        /\ db_exists' = db_exists
        /\ news' = news
        /\ channel' = channel

\* C20: absent identity state is the first-run base case and no error.
\* With no marker file, or an unreadable one, the whole scraped list is
\* returned as new and its first item becomes the marker; with no Sent-Set
\* file the Sent-Set is empty; with no result files, or no database, the
\* publish run ends successfully, has sent nothing and changed nothing.
C20_FirstRun ==
    /\ []NoMarkerAllNew
    /\ [][NoMarkerRead /\ NoFilesNothingSent /\ NoDatabaseNothingSent]_vars

\* first run of the class revision over an unreadable marker file: five
\* articles scraped, all five returned, the first is the marker
C20_Witness ==
    /\ Returned("class")
    /\ parse.last_news = None
    /\ Len(Scraped) = 5
    /\ parse.articles = Scraped
    /\ last_news_file = save_last_news(Scraped[1])

\* first publish runs: no result files, no database
FirstRunNoFiles ==
    /\ variant = "file"
    /\ handler.pc = "done"
    /\ handler.ok
    /\ handler.reason = "no news"
    /\ results_dir = <<>>
    /\ sent_file = NoFile

FirstRunNoDatabase ==
    /\ variant = "db"
    /\ handler.pc = "done"
    /\ handler.ok
    /\ handler.reason = "db missing"
    /\ ~db_exists

(***************************************************************************)
(* SpecFingerprint: NewsDB.fingerprint and ForbesParser.generate_fingerprint *)
(* as pure functions, applied to two (title, link) pairs.  A missing title  *)
(* or link reaches NewsDB.fingerprint as the empty string.                  *)
(***************************************************************************)
FpTitles == {<<>>, <<"a">>, <<"b">>, <<"a", "|", "b">>}
FpLinks == {<<>>, <<"c">>, <<"d">>, <<"b", "|", "c">>}
FpPairs == [title : FpTitles, link : FpLinks]

InitFingerprint ==
    /\ \E a \in FpPairs, b \in FpPairs :
          fp_call = [done |-> FALSE, first |-> a, second |-> b,
                     sha1 |-> <<>>, md5 |-> <<>>]
    /\ scan = ScanIdle
    /\ RaceAtRest
    /\ SameAtRest
    /\ ForbesAtRest
    /\ StoreAtRest
    /\ PublishAtRest
    /\ FilesAtRest

\* both functions are called for both pairs
CallFingerprint ==
    /\ ~fp_call.done
    /\ fp_call' = [fp_call EXCEPT
                      !.done = TRUE,
                      !.sha1 = <<fingerprint(fp_call.first.title, fp_call.first.link),
                                 fingerprint(fp_call.second.title, fp_call.second.link)>>,
                      !.md5 = <<generate_fingerprint(fp_call.first.title,
                                                     fp_call.first.link),
                                generate_fingerprint(fp_call.second.title,
                                                     fp_call.second.link)>>]
    /\ UNCHANGED <<scan, raceVars, sameVars, forbesVars, storeVars, publishVars, fileVars>>

NextFingerprint == CallFingerprint

SpecFingerprint == InitFingerprint /\ [][NextFingerprint]_vars

(***************************************************************************)
(* Claims about the fingerprint (SpecFingerprint).                         *)
(***************************************************************************)
SamePair == fp_call.first = fp_call.second

\* equal pairs have equal fingerprints
FingerprintIsFunction ==
    (fp_call.done /\ SamePair) =>
        fp_call.sha1[1] = fp_call.sha1[2] /\ fp_call.md5[1] = fp_call.md5[2]

\* C21: the fingerprint is a function of (title, link), and two distinct
\* (title, link) pairs have distinct fingerprints, the digest being
\* injective, also when a title or a link holds the '|' character.
C21_AsStated ==
    fp_call.done =>
        /\ SamePair <=> fp_call.sha1[1] = fp_call.sha1[2]
        /\ SamePair <=> fp_call.md5[1] = fp_call.md5[2]

\* two pairs that differ in title and in link and have one fingerprint
FingerprintCollision ==
    /\ fp_call.done
    /\ fp_call.first.title # fp_call.second.title
    /\ fp_call.first.link # fp_call.second.link
    /\ fp_call.sha1[1] = fp_call.sha1[2]
    /\ fp_call.md5[1] = fp_call.md5[2]

(***************************************************************************)
(* The parser run: NewsParser.run with parse_site_static and               *)
(* parse_site_selenium, whose index scans are the same loop.               *)
(*                                                                         *)
(* A date is NullDate (None, stored as NULL), a text or an instant.        *)
(***************************************************************************)
\* most indices a site is set to scan (max_items), most consecutive misses
\* it is set to bear (consecutive_miss_break)
MaxItems == 3
MaxMissBreak == 2

NullDate == [kind |-> "null"]
DateText(s) == [kind |-> "text", text |-> s]
Instant(now, hours_before) == [kind |-> "instant", now |-> now, hours_before |-> hours_before]

\* the date texts the pages show
IsoText == <<"2", "0", "2", "5", "-", "1", "0", "-", "0", "1">>
AgoText == <<"2", " ", "h", "o", "u", "r", "s", " ", "a", "g", "o">>
OtherText == <<"s", "o", "o", "n">>

\* datetime.fromisoformat(s).isoformat(); Fails when it raises
Fails == [fails |-> TRUE]
fromisoformat(s) ==
    IF s = IsoText THEN s \o <<"T", "0", "0", ":", "0", "0", ":", "0", "0">> ELSE Fails

\* re.search(r"(\d+)\s+hour", low): the number, -1 when there is no match
HoursIn(low) == IF low = AgoText THEN 2 ELSE -1

\* mutant of normalize_date: the current timestamp when nothing matches
normalize_date_now(raw, now) ==
    IF raw = <<>> THEN Instant(now, 0)
    ELSE LET s == strip(raw)
         IN  IF fromisoformat(s) # Fails THEN DateText(fromisoformat(s))
             ELSE IF HoursIn(lower(s)) >= 0 THEN Instant(now, HoursIn(lower(s)))
             ELSE Instant(now, 0)

\* normalize_date(raw, site) at the time now: None for no text, the ISO
\* text, the instant so many hours ago, else the text as it is.  ('Month
\* Day, Year', minutes ago, 'an hour ago' and 'today' match none of the
\* date texts above.)
normalize_date(raw, now) ==
    IF raw = <<>> THEN NullDate
    ELSE LET s == strip(raw)
         IN  IF fromisoformat(s) # Fails THEN DateText(fromisoformat(s))
             ELSE IF HoursIn(lower(s)) >= 0 THEN Instant(now, HoursIn(lower(s)))
             ELSE DateText(s)

\* What an index of a page holds: no title node, or a title node with its
\* text, the href found for it (NoLink when none) and the text of the date
\* node (empty when there is none).
NoTitle == [title |-> None]
NoLink == <<>>
IndexEntry(title, link, date) == [title |-> title, link |-> link, date |-> date]

IndexEntries ==
    {NoTitle,
     IndexEntry(<<"a">>, <<"x">>, <<>>),
     IndexEntry(<<" ", "b">>, <<"y">>, <<" ">> \o OtherText),
     IndexEntry(<<"c">>, <<"z">>, AgoText),
     IndexEntry(<<"d">>, NoLink, IsoText)}

HasTitle(e) == e # NoTitle

\* "if title and link"
Storable(e) == HasTitle(e) /\ strip(e.title) # <<>> /\ e.link # NoLink

\* the sites of sites.json, in the order of the file; a run has the first
\* n of them, each with its consecutive_miss_break
ScanSites == <<"s1", "s2">>
SiteCfg(name, max_items, miss_break) ==
    [name |-> name, max_items |-> max_items, miss_break |-> miss_break]

SiteLists ==
    UNION {{[i \in 1..n |-> SiteCfg(ScanSites[i], MaxItems, b[i])] :
               b \in [1..n -> 1..MaxMissBreak]} : n \in 0..Len(ScanSites)}

StorageFaults == {"none", "execute", "commit"}

\* add_article on a connection that holds the rows of pending in its open
\* transaction.  A fault is an sqlite error other than IntegrityError, raised
\* by the INSERT ("execute") or by the commit ("commit"): both are caught
\* and False is returned; after a failed commit the row stays in the
\* transaction, and the next commit that succeeds stores it.
add_article(table, pending, row, fault) ==
    LET view == table \o pending
    IN  IF fault = "execute" \/ ~InsertAccepted(view, row)
        THEN [news |-> table, pending |-> pending, added |-> FALSE]
        ELSE IF fault = "commit"
        THEN [news |-> table, pending |-> Append(pending, row), added |-> FALSE]
        ELSE [news |-> Append(view, row), pending |-> <<>>, added |-> TRUE]

\* self.counters["per_site"][site_name] = ....get(site_name, 0) + 1
PerSiteAfter(per_site, site) ==
    [s \in DOMAIN per_site \cup {site} |->
        IF s = site THEN (IF s \in DOMAIN per_site THEN per_site[s] ELSE 0) + 1
        ELSE per_site[s]]

\* the counters after add_article returned added
CountersAfter(counters, site, added) ==
    [counters EXCEPT
        !.found_total = @ + 1,
        ![Counted(added)] = @ + 1,
        !.per_site = IF added THEN PerSiteAfter(@, site) ELSE @]

\* mutant of MissAfter: a title does not reset the counter
MissAfterNoReset(consecutive_miss, has_title) ==
    IF has_title THEN consecutive_miss ELSE consecutive_miss + 1

\* consecutive_miss after an index: "consecutive_miss += 1" when there is
\* no title, "consecutive_miss = 0" when there is one
MissAfter(consecutive_miss, has_title) ==
    IF has_title THEN 0 ELSE consecutive_miss + 1

(***************************************************************************)
(* SpecScan: one parser run over a new news.db.                            *)
(***************************************************************************)
InitScan ==
    /\ scan = ScanIdle
    /\ fp_call = FpIdle
    /\ RaceAtRest
    /\ StoreAtRest
    /\ SameAtRest
    /\ ForbesAtRest
    /\ PublishAtRest
    /\ FilesAtRest

\* NewsParser(): NewsDB opens news.db, the sites are read, the counters are 0
ScanRunStart(sites) ==
    /\ scan.pc = "idle"
    /\ db_exists' = TRUE
    /\ news' = init_schema(news)
    /\ scan' = [ScanIdle EXCEPT !.pc = "sites", !.todo = sites]
    /\ UNCHANGED <<utcnow, add_call, mark_call, tie_order, fp_call,
                   raceVars, sameVars, forbesVars, publishVars, fileVars>>

\* run() takes the next site; parse_site_* up to its loop.  ready is FALSE
\* when the configuration is wrong, the page does not load or the anchor is
\* not found: an error is noted and the site is left.  Loading the page
\* takes time.
ScanSiteStart(ready, later) ==
    /\ scan.pc = "sites"
    /\ scan.todo # <<>>
    /\ later => utcnow < MaxTime
    /\ utcnow' = IF later THEN utcnow + 1 ELSE utcnow
    /\ LET cfg == Head(scan.todo)
       IN  scan' = IF ~ready
                   THEN [scan EXCEPT !.todo = Tail(@), !.errors = @ + 1]
                   ELSE [scan EXCEPT
                            !.todo = Tail(@), !.site = cfg.name,
                            !.max_items = cfg.max_items,
                            !.miss_break = cfg.miss_break,
                            !.idx = 1, !.consecutive_miss = 0,
                            !.examined = <<>>,
                            !.pc = IF 1 <= cfg.max_items THEN "loop" ELSE "sites"]
    /\ UNCHANGED <<db_exists, news, add_call, mark_call, tie_order, fp_call,
                   raceVars, sameVars, forbesVars, publishVars, fileVars>>

\* one pass of "while idx <= max_items" over an index that holds e; the
\* storage fails once in a run at most
ScanIndex(e, fault) ==
    /\ scan.pc = "loop"
    /\ fault # "none" => Storable(e) /\ ~scan.faulted
    /\ LET miss == MissAfter(scan.consecutive_miss, HasTitle(e))
           break == ~HasTitle(e) /\ miss >= scan.miss_break
           pub_date == normalize_date(strip(e.date), utcnow)
           row == NewRow(news \o scan.pending, scan.site, strip(e.title), e.link,
                         pub_date, utcnow)
           call == IF Storable(e) THEN add_article(news, scan.pending, row, fault)
                   ELSE [news |-> news, pending |-> scan.pending, added |-> FALSE]
       IN  /\ news' = call.news
           /\ scan' = [scan EXCEPT
                          !.consecutive_miss = miss,
                          !.idx = IF break THEN @ ELSE @ + 1,
                          !.pc = IF break \/ scan.idx + 1 > scan.max_items
                                 THEN "sites" ELSE "loop",
                          !.counters = IF Storable(e)
                                       THEN CountersAfter(@, scan.site, call.added)
                                       ELSE @,
                          !.pending = call.pending,
                          !.examined = Append(@, HasTitle(e)),
                          !.stored = @ + Len(call.news) - Len(news),
                          !.faulted = @ \/ fault # "none"]
    /\ UNCHANGED <<db_exists, utcnow, add_call, mark_call, tie_order, fp_call,
                   raceVars, sameVars, forbesVars, publishVars, fileVars>>

\* _finalize writes the result; main() closes the connection, which drops
\* the rows of a transaction that was never committed
ScanFinalize ==
    /\ scan.pc = "sites"
    /\ scan.todo = <<>>
    /\ scan' = [scan EXCEPT !.pc = "finalized", !.pending = <<>>]
    /\ UNCHANGED <<fp_call, raceVars, sameVars, forbesVars, storeVars,
                   publishVars, fileVars>>

NextScan ==
    \/ \E sites \in SiteLists : ScanRunStart(sites)
    \/ \E ready, later \in BOOLEAN : ScanSiteStart(ready, later)
    \/ \E e \in IndexEntries, fault \in StorageFaults : ScanIndex(e, fault)
    \/ ScanFinalize

SpecScan == InitScan /\ [][NextScan]_vars

(***************************************************************************)
(* Claims about the date of an article (SpecScan).                         *)
(***************************************************************************)
\* the date text is empty, or no format normalize_date knows matches it
DateUnknown(e) ==
    LET s == strip(e.date)
    IN  s = <<>> \/ (fromisoformat(s) = Fails /\ HoursIn(lower(s)) < 0)

\* the article of e is neither in the table nor in the open transaction
Fresh(e) ==
    ~HasFingerprint(news \o scan.pending, fingerprint(strip(e.title), e.link))

\* the scan passes an index that holds an article with such a date text,
\* the article is not stored yet and the storage does not fail
UndatedInsert(e, fault) ==
    /\ ScanIndex(e, fault)
    /\ Storable(e)
    /\ fault = "none"
    /\ Fresh(e)
    /\ DateUnknown(e)

\* the scan went on to the next index and a row of e is the last of the table
InsertedAndOn(e) ==
    /\ scan'.idx = scan.idx + 1
    /\ scan'.errors = scan.errors
    /\ scan'.counters.added_total = scan.counters.added_total + 1
    /\ Len(news') = Len(news) + Len(scan.pending) + 1
    /\ news'[Len(news')].title = strip(e.title)
    /\ news'[Len(news')].link = e.link
    /\ news'[Len(news')].status = "new"

StoredWithNow ==
    \A e \in IndexEntries, fault \in StorageFaults :
        UndatedInsert(e, fault) =>
            /\ InsertedAndOn(e)
            /\ news'[Len(news')].pub_date = Instant(utcnow, 0)

\* C22 as stated: an article whose date text is empty or matches no
\* recognised format is still inserted, the scan goes on, and its pub_date
\* is the current timestamp.
C22_AsStated == [][StoredWithNow]_vars

StoredWithTextOrNull ==
    \A e \in IndexEntries, fault \in StorageFaults :
        UndatedInsert(e, fault) =>
            /\ InsertedAndOn(e)
            /\ news'[Len(news')].pub_date =
                  IF strip(e.date) = <<>> THEN NullDate ELSE DateText(strip(e.date))

\* C22: an article whose date text is empty or matches no recognised format
\* is still inserted and the scan goes on; its pub_date is NULL when the
\* text is empty and the stripped text itself when no format matches.
C22_FallbackDate == [][StoredWithTextOrNull]_vars

\* the table holds an article stored without pub_date and one stored with
\* the date text no format matched
C22_Witness ==
    /\ scan.pc # "idle"
    /\ \E i, j \in 1..Len(news) :
          /\ news[i].pub_date = NullDate
          /\ news[j].pub_date = DateText(OtherText)

(***************************************************************************)
(* Claims about the illustration (SpecPublish).                            *)
(***************************************************************************)
\* a run whose illustrator returned no image goes on to the send
NoImageGoesOn ==
    (handler.pc = "art" /\ handler' # handler /\ ~handler'.image) =>
        /\ handler'.pc = "send"
        /\ handler'.item = handler.item
        /\ channel' = channel

\* without an image the text is sent; when that send succeeds the message
\* is in the channel and the run goes on to mark the article
TextSentWithoutImage ==
    /\ \A photo_ok \in BOOLEAN :
          (HSend(photo_ok, TRUE) /\ ~handler.image) =>
              /\ handler'.pc = "mark"
              /\ handler'.sent = 1
              /\ channel' = Append(channel, handler.item.id)
    /\ (FSend(TRUE) /\ ~handler.image) =>
          /\ handler'.pc = "mark"
          /\ handler'.sent = 1
          /\ channel' = Append(channel, handler.item.news_hash)

\* the marking step ends the run with success and the article is consumed
MarkedAndOk ==
    (handler.pc = "mark" /\ handler'.pc = "done") =>
        /\ handler'.ok
        /\ handler'.image = handler.image
        /\ IF variant = "db"
           THEN news'[handler.item.id].status = "posted"
           ELSE handler.item.news_hash \in load_sent_news(sent_file')

\* C23: when the illustrator returns no image the publish run goes on and
\* sends the summary as text; when that send succeeds the message is in the
\* channel, the run marks the article (status 'posted', or hash in the
\* Sent-Set) and returns success.
C23_NoImageNotFatal == [][NoImageGoesOn /\ TextSentWithoutImage /\ MarkedAndOk]_vars

\* database variant: a run without image that sent its text, marked the
\* article and succeeded
C23_Witness ==
    /\ variant = "db"
    /\ handler.pc = "done"
    /\ ~handler.image
    /\ handler.ok
    /\ handler.sent = 1
    /\ news[handler.item.id].status = "posted"
    /\ channel[Len(channel)] = handler.item.id

\* the same in the file variant
NoImageSentFile ==
    /\ variant = "file"
    /\ handler.pc = "done"
    /\ ~handler.image
    /\ handler.ok
    /\ handler.sent = 1
    /\ handler.item.news_hash \in load_sent_news(sent_file)

(***************************************************************************)
(* Claims about the rows of the store (SpecStore).                         *)
(***************************************************************************)
\* the fields of a row that identify the article
Identity(r) ==
    [id |-> r.id, site |-> r.site, title |-> r.title, link |-> r.link,
     pub_date |-> r.pub_date, parsed_date |-> r.parsed_date,
     fingerprint |-> r.fingerprint]

RowsKept ==
    /\ Len(news') >= Len(news)
    /\ \A i \in 1..Len(news) : Identity(news'[i]) = Identity(news[i])
    /\ db_exists => db_exists'

\* opening a store that exists changes nothing
ReopenChangesNothing ==
    (db_exists /\ OpenDB) => news' = news /\ db_exists' = db_exists

\* C24: under any sequence of add_article calls of parser runs, each run
\* opening the store and running _init_schema again, and of
\* mark_article_posted calls of publish runs, no row is deleted and no
\* row's site, title, link, pub_date, parsed_date or fingerprint changes;
\* opening a store that exists changes nothing.
C24_StoreOnlyGrows == [][RowsKept /\ ReopenChangesNothing]_vars

\* a table of two rows, the first posted, after a rejected insert of the
\* first row's article at a later time
C24_Witness ==
    /\ Len(news) = 2
    /\ news[1].status = "posted"
    /\ news[2].status = "new"
    /\ utcnow > news[1].parsed_date
    /\ \E p \in Parsers :
          /\ add_call[p].outcome = "duplicate"
          /\ add_call[p].title = news[1].title
          /\ add_call[p].link = news[1].link

(***************************************************************************)
(* Claims about the delivery order of the file variant (SpecPublish).      *)
(* The name of a result file carries the time it was created at: a file    *)
(* is older than another when its name is lower.                           *)
(***************************************************************************)
\* the file holds a record whose hash is not in the Sent-Set
HasUnsent(file, sent_news) ==
    \E k \in 1..Len(parse_news_file(file)) :
        news_hash(parse_news_file(file)[k]) \notin sent_news

OldestFileFirst ==
    (FileRunStarts /\ handler'.item # None) =>
        \A i \in 1..Len(results_dir) :
            results_dir[i].name < handler'.item.filepath =>
                ~HasUnsent(results_dir[i], load_sent_news(sent_file))

\* C25: get_oldest_unsent_news returns a record of the oldest result file,
\* by creation time, that holds an unsent record: a record of a newer file
\* is returned only when every record of every older file is in the
\* Sent-Set.
C25_AsStated == [][OldestFileFirst]_vars

\* a run selected a record of the younger file while the older file, pruned
\* by the run before, holds an unsent record
NewerFileFirst ==
    /\ variant = "file"
    /\ handler.pc = "gpt"
    /\ \E i \in 1..Len(results_dir) :
          /\ results_dir[i].name < handler.item.filepath
          /\ HasUnsent(results_dir[i], handler.before)

(***************************************************************************)
(* SpecRace: two processes run process_one_article side by side on one     *)
(* news.db, again and again, while a parser adds articles.  Each SELECT    *)
(* and each UPDATE with its commit is one step of SQLite; between the      *)
(* steps of a process the other may take any number of its own.            *)
(***************************************************************************)
Publishers == {"h1", "h2"}

InitRace ==
    /\ procs = [p \in Publishers |-> HandlerIdle]
    /\ variant = "db"
    /\ handler = HandlerIdle
    /\ channel = <<>>
    /\ StoreAtRest
    /\ ParserAtRest
    /\ FilesAtRest
    /\ SameAtRest
    /\ ForbesAtRest

\* what the channel keeps of a message: the article and the sending process
Message(id, p) == [id |-> id, by |-> p]

\* process p: process_one_article up to the summarizer call
RStart(p, env_ok) ==
    /\ procs[p].pc \in {"idle", "done"}
    /\ LET fresh == [HandlerIdle EXCEPT !.before = PostedIds(news),
                                       !.seen = Len(news)]
       IN  procs' = [procs EXCEPT ![p] =
               IF ~env_ok THEN Done(fresh, FALSE, "telegram not set")
               ELSE IF ~db_exists THEN Done(fresh, TRUE, "db missing")
               ELSE IF get_next_article(news) = {} THEN Done(fresh, TRUE, "no new")
               ELSE [fresh EXCEPT
                        !.pc = "gpt",
                        !.item = fetchone(get_next_article(news), tie_order)]]
    /\ UNCHANGED <<parserVars, sameVars, forbesVars, storeVars, publishVars, fileVars>>

\* process p: yandex_gpt_call returned a summary, or None
RGpt(p, ok) ==
    /\ procs[p].pc = "gpt"
    /\ procs' = [procs EXCEPT ![p] =
                    IF ok THEN [@ EXCEPT !.pc = "art"] ELSE Done(@, FALSE, "gpt failed")]
    /\ UNCHANGED <<parserVars, sameVars, forbesVars, storeVars, publishVars, fileVars>>

\* process p: generate_image returned the image bytes, or None
RArt(p, image) ==
    /\ procs[p].pc = "art"
    /\ procs' = [procs EXCEPT ![p] = [@ EXCEPT !.pc = "send", !.image = image]]
    /\ UNCHANGED <<parserVars, sameVars, forbesVars, storeVars, publishVars, fileVars>>

\* process p: the photo and, when nothing went out, the text
RSend(p, photo_ok, text_ok) ==
    /\ procs[p].pc = "send"
    /\ LET n == TelegramSends(procs[p].image, photo_ok, text_ok)
       IN  /\ channel' = channel \o Repeat(Message(procs[p].item.id, p), n)
           /\ procs' = [procs EXCEPT ![p] =
                           IF n > 0 THEN [@ EXCEPT !.pc = "mark", !.sent = n]
                           ELSE Done(@, FALSE, "send failed")]
    /\ UNCHANGED <<variant, handler, parserVars, sameVars, forbesVars, storeVars, fileVars>>

\* process p: mark_article_posted(conn, article_id) and the return
RMark(p) ==
    /\ procs[p].pc = "mark"
    /\ news' = TableAfterUpdate(news, procs[p].item.id)
    /\ mark_call' = [id |-> procs[p].item.id, outcome |-> "updated",
                     met |-> news[procs[p].item.id].status]
    /\ procs' = [procs EXCEPT ![p] = Done(@, TRUE, "posted")]
    /\ UNCHANGED <<db_exists, utcnow, add_call, tie_order, parserVars, sameVars,
                   forbesVars, publishVars, fileVars>>

NextRace ==
    \/ OpenDB
    \/ \E site \in Sites, a \in StoreArticles :
          AddArticle("p1", site, a.title, a.link, 1, FALSE)
    \/ \E p \in Publishers, env_ok \in BOOLEAN : RStart(p, env_ok)
    \/ \E p \in Publishers, ok \in BOOLEAN : RGpt(p, ok)
    \/ \E p \in Publishers, image \in BOOLEAN : RArt(p, image)
    \/ \E p \in Publishers, photo_ok, text_ok \in BOOLEAN : RSend(p, photo_ok, text_ok)
    \/ \E p \in Publishers : RMark(p)

SpecRace == InitRace /\ [][NextRace]_vars

(***************************************************************************)
(* Claims about publish processes that run side by side (SpecRace).        *)
(***************************************************************************)
\* C26: two publish processes that run side by side on one database, their
\* select, send and mark steps interleaved in any order, never both deliver
\* the same article to the channel.
C26_AsStated ==
    \A i, j \in 1..Len(channel) :
        channel[i].by # channel[j].by => channel[i].id # channel[j].id

\* both processes selected the article while it was 'new', both sent it
BothDelivered ==
    /\ Len(channel) = 2
    /\ channel[1].id = channel[2].id
    /\ channel[1].by # channel[2].by
    /\ news[channel[1].id].status = "posted"

(***************************************************************************)
(* SpecDrain: the parser fills the table; from the first publish run on    *)
(* nothing more is ingested, and in every run of the database variant the  *)
(* settings are there, the summarizer returns a summary and a Telegram     *)
(* call succeeds.  The scheduler starts run after run, and every call of   *)
(* a run returns.                                                          *)
(***************************************************************************)
InitDrain ==
    /\ variant = "db"
    /\ handler = HandlerIdle
    /\ channel = <<>>
    /\ db_exists = FALSE
    /\ news = <<>>
    /\ utcnow = 0
    /\ add_call = [p \in Parsers |-> NoCall]
    /\ mark_call = NoCall
    /\ tie_order \in {"first", "last"}
    /\ ParserAtRest
    /\ RaceAtRest
    /\ FilesAtRest
    /\ SameAtRest
    /\ ForbesAtRest

\* ingestion, before the first publish run
DrainIngest ==
    /\ handler.pc = "idle"
    /\ \/ OpenDB
       \/ Tick
       \/ \E site \in Sites, a \in StoreArticles, d \in PubDates, fault \in BOOLEAN :
             AddArticle("p1", site, a.title, a.link, d, fault)

\* the steps of a publish run in which nothing fails
DrainRun ==
    \/ HStart(TRUE)
    \/ HGpt(TRUE)
    \/ \E image \in BOOLEAN : HArt(image)
    \/ \E photo_ok, text_ok \in BOOLEAN :
          /\ TelegramSends(handler.image, photo_ok, text_ok) > 0
          /\ HSend(photo_ok, text_ok)
    \/ HMark

NextDrain == DrainIngest \/ DrainRun

SpecDrain == InitDrain /\ [][NextDrain]_vars /\ WF_vars(DrainRun)

(***************************************************************************)
(* Claims about the progress of the queue (SpecDrain).                     *)
(***************************************************************************)
NewCount == Cardinality({i \in 1..Len(news) : news[i].status = "new"})

\* a run that found a 'new' row ends with one 'new' row less; a run that
\* found none sends nothing and changes nothing
RunTakesOne ==
    /\ (handler.pc \in {"idle", "done"} /\ handler' # handler) =>
          /\ NewCount' = NewCount
          /\ handler'.pc = "done" <=> (NewCount = 0)
          /\ handler'.pc = "done" => handler'.sent = 0 /\ channel' = channel
    /\ (handler.pc \in {"gpt", "art", "send"}) => NewCount' = NewCount
    /\ (handler.pc = "mark" /\ handler' # handler) =>
          /\ handler'.pc = "done"
          /\ handler'.sent = 1
          /\ NewCount' = NewCount - 1

\* a run that selected an article ends having posted it
RunEnds ==
    (handler.pc = "gpt") ~> (handler.pc = "done" /\ handler.reason = "posted")

\* in the end no row is 'new', for good; every row has been sent once
Drained ==
    /\ NewCount = 0
    /\ \A i \in 1..Len(news) :
          Cardinality({k \in 1..Len(channel) : channel[k] = news[i].id}) = 1

\* C27: with no further ingestion and the summarizer and the publisher
\* succeeding in every run, each publish run that finds a 'new' row lowers
\* the number of 'new' rows by exactly one; in the end every ingested
\* article is posted; the runs after that send nothing.
C27_QueueDrains == [][RunTakesOne]_vars /\ RunEnds /\ <>[]Drained

\* two articles were ingested, two runs posted them, a third found nothing
C27_Witness ==
    /\ Len(news) = 2
    /\ NewCount = 0
    /\ Len(channel) = 2
    /\ channel[1] # channel[2]
    /\ handler.pc = "done"
    /\ handler.reason = "no new"
    /\ handler.sent = 0

(***************************************************************************)
(* Claims about the index scan (SpecScan).                                 *)
(***************************************************************************)
\* the number of indices without title at the end of what was examined
RECURSIVE TrailingMisses(_)
TrailingMisses(examined) ==
    IF examined = <<>> \/ examined[Len(examined)] THEN 0
    ELSE 1 + TrailingMisses(SubSeq(examined, 1, Len(examined) - 1))

\* some miss_break indices in a row, the last of them at k, had no title
MissRunEndsAt(examined, k, miss_break) ==
    /\ k >= miss_break
    /\ \A i \in (k - miss_break + 1)..k : ~examined[i]

\* while the scan is in its loop
ScanInLoop ==
    scan.pc = "loop" =>
        /\ scan.idx <= scan.max_items
        /\ Len(scan.examined) = scan.idx - 1
        /\ scan.consecutive_miss = TrailingMisses(scan.examined)
        /\ \A k \in 1..Len(scan.examined) :
              ~MissRunEndsAt(scan.examined, k, scan.miss_break)

\* the scan of a site has ended: at most max_items indices were examined,
\* and fewer only when the last of them completed the first run of
\* miss_break indices without title
ScanEnded ==
    (scan.pc \in {"sites", "finalized"} /\ scan.site # "none") =>
        /\ Len(scan.examined) <= scan.max_items
        /\ \A k \in 1..(Len(scan.examined) - 1) :
              ~MissRunEndsAt(scan.examined, k, scan.miss_break)
        /\ Len(scan.examined) < scan.max_items =>
              MissRunEndsAt(scan.examined, Len(scan.examined), scan.miss_break)

\* a pass of the loop ends the scan exactly on the last index or on a
\* completed run of misses; an article met at an index is ingested,
\* whatever indices without title came before it
ScanPass ==
    \A e \in IndexEntries, fault \in StorageFaults :
        ScanIndex(e, fault) =>
            /\ scan'.examined = Append(scan.examined, HasTitle(e))
            /\ scan'.pc = "sites" <=>
                  \/ Len(scan'.examined) = scan.max_items
                  \/ TrailingMisses(scan'.examined) >= scan.miss_break
            /\ HasTitle(e) => scan'.consecutive_miss = 0
            /\ (Storable(e) /\ fault = "none" /\ Fresh(e)) =>
                  /\ Len(news') = Len(news) + Len(scan.pending) + 1
                  /\ news'[Len(news')].title = strip(e.title)
                  /\ news'[Len(news')].link = e.link

\* C28: the index scan examines at most max_items indices; it stops before
\* that exactly at the first index that completes miss_break consecutive
\* indices without title; every index with a title resets the miss counter
\* to 0, so that a shorter gap does not stop the scan, and an article after
\* the gap is ingested.
C28_ScanStops == [](ScanInLoop /\ ScanEnded) /\ [][ScanPass]_vars

\* consecutive_miss_break 2: an article, an index without title, and an
\* article after the gap, both ingested
C28_Witness ==
    /\ scan.miss_break = 2
    /\ scan.examined = <<TRUE, FALSE, TRUE>>
    /\ scan.stored = 2
    /\ Len(news) = 2

\* the scan stopped at the second index, after two indices without title
ScanStoppedEarly ==
    /\ scan.pc = "sites"
    /\ scan.miss_break = 2
    /\ scan.max_items = 3
    /\ scan.examined = <<FALSE, FALSE>>

(***************************************************************************)
(* Claims about the counters of a parser run (SpecScan).                   *)
(***************************************************************************)
RECURSIVE SumOver(_, _)
\* the sum of the counts that per_site has for the sites of names
SumOver(per_site, names) ==
    IF names = {} THEN 0
    ELSE LET s == CHOOSE x \in names : TRUE
         IN  per_site[s] + SumOver(per_site, names \ {s})

PerSiteSum == SumOver(scan.counters.per_site, DOMAIN scan.counters.per_site)

\* found_total = added_total + duplicates, and added_total is the sum of
\* the per_site counts
CountersAddUp ==
    /\ scan.counters.found_total =
           scan.counters.added_total + scan.counters.duplicates
    /\ scan.counters.added_total = PerSiteSum

\* C29: at every point of a parser run found_total = added_total +
\* duplicates, added_total is the sum of the per_site counts, and
\* added_total is the number of rows the run has added to the store.
C29_AsStated ==
    /\ CountersAddUp
    /\ scan.counters.added_total = scan.stored

\* the counters add up, yet the run has added more rows to the store than
\* added_total says: the commit of one insert failed, add_article returned
\* False for it, and the commit of the next insert stored both rows
StoredButNotCounted ==
    /\ CountersAddUp
    /\ scan.faulted
    /\ scan.stored = Len(news)
    /\ scan.stored > scan.counters.added_total
    /\ scan.counters.duplicates > 0

(***************************************************************************)
(* SpecRetain: the Forbes parser saves result file after result file,      *)
(* more of them than save_results keeps, while the file variant of the     *)
(* publishing script runs.                                                 *)
(***************************************************************************)
\* what a parser run hands to save_results: one or two new articles, of
\* those whose link carries no query
RetainLists ==
    {q \in ArticleLists :
        Len(q) <= 2 /\ \A i \in 1..Len(q) : ~Contains(q[i].link, <<"?">>)}

InitRetain ==
    /\ variant = "file"
    /\ handler = HandlerIdle
    /\ channel = <<>>
    /\ FilesAtRest
    /\ StoreAtRest
    /\ SameAtRest
    /\ ParserAtRest
    /\ RaceAtRest
    /\ ForbesAtRest

\* save_results(articles): the file github_<timestamp>.txt is written, then
\* the files beyond the five youngest by name are removed
RetainSave(articles) ==
    /\ variant = "file"
    /\ file_serial < MaxSaves
    /\ file_serial' = file_serial + 1
    /\ results_dir' = DirAfterSave(results_dir, file_serial + 1, articles)
    /\ UNCHANGED <<sent_file, sameVars, parserVars, raceVars, forbesVars,
                   storeVars, publishVars>>

NextRetain ==
    \/ \E articles \in RetainLists : RetainSave(articles)
    \/ FStart
    \/ FGpt(TRUE)
    \/ FArt(FALSE)
    \/ FSend(TRUE)
    \/ FMark

SpecRetain == InitRetain /\ [][NextRetain]_vars

(***************************************************************************)
(* Claims about the retention of result files (SpecRetain).                *)
(***************************************************************************)
FileNames(dir) == {dir[i].name : i \in 1..Len(dir)}

\* the smaller of two numbers
Least(a, b) == IF a < b THEN a ELSE b

\* a file of the directory holds a record that is in no Sent-Set
UnsentIn(dir, sent_news) ==
    {n \in FileNames(dir) : HasUnsent(FileNamed(dir, n), sent_news)}

\* A step of save_results: of the files that were there and the file just
\* written, the KeepFiles with the greatest names are there afterwards, the
\* file just written with the articles among them, the files kept as they
\* were; what a file holds has no part in it.
SaveKeepsYoungest ==
    file_serial' # file_serial =>
        LET had == FileNames(results_dir) \cup {file_serial'}
            has == FileNames(results_dir')
        IN  /\ has \subseteq had
            /\ Cardinality(has) = Least(KeepFiles, Cardinality(had))
            /\ Len(results_dir') = Cardinality(has)
            /\ \A kept \in has, gone \in had \ has : kept > gone
            /\ file_serial' \in has
            /\ Len(FileNamed(results_dir', file_serial').records) > 0
            /\ \A n \in has \ {file_serial'} :
                   FileNamed(results_dir', n) = FileNamed(results_dir, n)

\* C30: after every save_results call at most 5 result files exist, they
\* are the 5 with the greatest names, the file just written among them;
\* files are removed by this rule whether or not they hold records that
\* were never sent.
C30_Retention == [](Len(results_dir) <= KeepFiles) /\ [][SaveKeepsYoungest]_vars

\* six files were written and nothing was ever sent: the first file went
\* with its records unsent
C30_Witness ==
    /\ file_serial = KeepFiles + 1
    /\ FileNames(results_dir) = 2..(KeepFiles + 1)
    /\ sent_file = NoFile
    /\ channel = <<>>
    /\ UnsentIn(results_dir, {}) = FileNames(results_dir)

\* six files were written; of the five that are left, the oldest has had
\* its records sent but for one, the others hold unsent records only
PartlySentKept ==
    /\ file_serial = KeepFiles + 1
    /\ Len(results_dir) = KeepFiles
    /\ Len(channel) = 1
    /\ sent_file # NoFile
    /\ Len(FileNamed(results_dir, 2).records) = 1

=============================================================================
